---- MODULE Spec2Model ----
(***************************************************************************)
(* Model of quickitquote/qiq-mcp-server: the tool registry, the JSON-RPC   *)
(* dispatchers (src/src/mcp.mjs, the tool core of src/unnamed/part_006,    *)
(* the WebSocket handler of src/api/mcp.js), the HTTP route of src/run.mjs *)
(* and the identifier path of typesense_search (src/unnamed/part_006).     *)
(*                                                                         *)
(* JavaScript values are records [t, v]: t is the typeof tag and v the     *)
(* text of the value, so that values of different JavaScript types can be  *)
(* compared.                                                               *)
(***************************************************************************)
EXTENDS Integers, Sequences, FiniteSets, TLC

VARIABLES
    rev,        \* which program is running: "mcp" (src/src/mcp.mjs + src/run.mjs),
                \* "core" (src/unnamed/part_006), "ws" (src/api/mcp.js)
    tools,      \* the registry, a Map in insertion order: Seq of [key, name, call]
    registered, \* history: the names registerTool has accepted (and the built-ins)
    nreg,       \* number of registerTool or typesense_config_set calls made so far
    last,       \* the last operation: its input and everything it produced
    config,     \* TS_HOST, TS_PROTOCOL, TS_PORT, TS_API_KEY_TRIMMED, TS_COLLECTION
                \* and the TYPESENSE_QUERY_BY of the environment
    tsClient,   \* the backend client handle (or none)
    cachedQueryBy, \* the cached query-field list ("" is null)
    REQUIRED_TOKEN, \* MCP_TOKEN of the environment, trimmed ("" is undefined)
    sseClients, \* the set of connected SSE clients of scripts/mcp-http-server.js
    streams,    \* the SSE streams: what was written to each, its timer, its end
    searches    \* the typesense_search calls in flight

httpVars == <<REQUIRED_TOKEN, sseClients, streams>>

vars ==
    <<rev, tools, registered, nreg, last, config, tsClient, cachedQueryBy, httpVars,
      searches>>

----------------------------------------------------------------------------
(* Bounds *)

\* registerTool calls in one behaviour
MaxRegs == 2

\* identifiers in the objectIDs array of one typesense_search call
MaxIds == 2
MaxStreams == 2
MaxConfigSets == 2

----------------------------------------------------------------------------
(* JavaScript values *)

Undefined == [t |-> "undefined", v |-> ""]
Null == [t |-> "null", v |-> ""]
Str(s) == [t |-> "string", v |-> s]
Num(s) == [t |-> "number", v |-> s]

\* ToBoolean: undefined, null, "" and 0 are falsy
Truthy(x) ==
    ~ \/ x.t \in {"undefined", "null"}
      \/ (x.t = "string" /\ x.v = "")
      \/ (x.t = "number" /\ x.v = "0")

Range(seq) == {seq[i] : i \in 1..Len(seq)}
NoDuplicates(seq) == \A i, j \in 1..Len(seq) : seq[i] = seq[j] => i = j

\* id ?? null
OrNull(id) == IF id.t \in {"undefined", "null"} THEN Null ELSE id

----------------------------------------------------------------------------
(* Error codes and texts of the dispatchers *)

ParseError == -32700
InvalidRequest == -32600
MethodNotFound == -32601
InvalidParams == -32602
ToolInvocationError == -32000

\* what a tool function does when called: the registry accepts any function
Behaviour(fn) ==
    CASE fn = "fRej" -> "reject"      \* async function that throws / rejected promise
      [] fn = "fThrow" -> "throw"     \* plain function that throws synchronously
      [] OTHER -> "return"

\* the message of the Error a failing tool function raises
FailureText(fn) == IF Behaviour(fn) = "return" THEN "" ELSE "boom"

----------------------------------------------------------------------------
(* Wire messages: a JSON-RPC envelope, or any other HTTP body *)

NoResult == [kind |-> "none", names |-> <<>>, fn |-> ""]
InitializeResult == [kind |-> "initialize", names |-> <<>>, fn |-> ""]
ToolsResult(names) == [kind |-> "tools", names |-> names, fn |-> ""]
ToolResult(fn) == [kind |-> "tool", names |-> <<>>, fn |-> fn]

ok(id, result) ==
    [status |-> 200, jsonrpc |-> TRUE, id |-> id, hasResult |-> TRUE,
     hasError |-> FALSE, code |-> 0, message |-> "", data |-> "", result |-> result]

err(id, code, message, data) ==
    [status |-> 200, jsonrpc |-> TRUE, id |-> OrNull(id), hasResult |-> FALSE,
     hasError |-> TRUE, code |-> code, message |-> message, data |-> data,
     result |-> NoResult]

\* the literal of the catch block: id null, no data
ParseErrorResponse ==
    [status |-> 200, jsonrpc |-> TRUE, id |-> Null, hasResult |-> FALSE,
     hasError |-> TRUE, code |-> ParseError, message |-> "Parse error", data |-> "",
     result |-> NoResult]

\* what a handler did: the messages it sent, the tool functions it invoked and
\* the names it looked up in the registry
Effect(out, invoked, lookups) == [out |-> out, invoked |-> invoked, lookups |-> lookups]

----------------------------------------------------------------------------
(* The registry of src/src/mcp.mjs and src/unnamed/part_006 *)

Keys(reg) == {reg[i].key : i \in 1..Len(reg)}
IndexOf(reg, k) == CHOOSE i \in 1..Len(reg) : reg[i].key = k

\* Map.prototype.get
MapGet(reg, k) ==
    IF k \in Keys(reg) THEN [found |-> TRUE, tool |-> reg[IndexOf(reg, k)]]
    ELSE [found |-> FALSE, tool |-> [key |-> "", name |-> "", call |-> ""]]

\* Map.prototype.set: a known key keeps its place, a new key goes last
MapSet(reg, k, t) ==
    IF k \in Keys(reg) THEN [reg EXCEPT ![IndexOf(reg, k)] = t]
    ELSE Append(reg, t)

\* { name, ...def }: an own "name" property of def overrides the key
Entry(name, def) ==
    [key |-> name, name |-> IF def.hasName THEN def.name ELSE name, call |-> def.call]

getTools(reg) == [i \in 1..Len(reg) |-> reg[i].name]

\* a registerTool without the check of def.call
registerTool_unchecked(reg, name, def) ==
    IF ~Truthy(name) \/ name.t # "string" THEN [threw |-> TRUE, tools |-> reg]
    ELSE [threw |-> FALSE, tools |-> MapSet(reg, name.v, Entry(name.v, def))]

\* registerTool(name, def): [threw, tools]
registerTool(reg, name, def) ==
    IF ~Truthy(name) \/ name.t # "string" THEN [threw |-> TRUE, tools |-> reg]
    ELSE IF def.kind # "object" \/ def.call = "none" THEN [threw |-> TRUE, tools |-> reg]
    ELSE [threw |-> FALSE, tools |-> MapSet(reg, name.v, Entry(name.v, def))]

Builtin(n) == [key |-> n, name |-> n, call |-> n]

\* the registry after module load
InitialTools(r) ==
    CASE r = "mcp" -> <<Builtin("ping"), Builtin("typesense_search"),
                        Builtin("qiq_scoring"), Builtin("typesense_health")>>
      [] r = "older" -> <<Builtin("ping"), Builtin("typesense_search"),
                          Builtin("qiq_scoring"), Builtin("typesense_health")>>
      [] r = "core" -> <<Builtin("ping"), Builtin("typesense_search")>>
      [] r = "p5" -> <<Builtin("ping"), Builtin("typesense_search"),
                       Builtin("qiq_scoring"), Builtin("typesense_config_set"),
                       Builtin("typesense_health")>>
      [] OTHER -> <<>>

----------------------------------------------------------------------------
(* Inputs *)

RegNames == {Undefined, Str(""), Num("5"), Str("ping"), Str("a"), Str("b")}

Defs ==
    {[kind |-> "null", call |-> "none", hasName |-> FALSE, name |-> ""]}
    \cup {[kind |-> "object", call |-> c, hasName |-> FALSE, name |-> ""] :
            c \in {"none", "fRet", "fRej", "fThrow"}}
    \cup {[kind |-> "object", call |-> "fRet", hasName |-> TRUE, name |-> "b"]}

Ids == {Undefined, Null, Num("7")}

Methods ==
    {Undefined, Num("1"), Str(""), Str("initialize"), Str("tools/list"),
     Str("tools/call"), Str("toolslist"), Str("toolscall"), Str("foo")}

NoParams == [present |-> FALSE, name |-> Undefined]

ToolNames ==
    {Undefined, Str(""), Num("5"), Str("ping"), Str("a"), Str("b"),
     Str("constructor"), Str("__proto__")}

CallMethods == {Str("tools/call"), Str("toolscall")}

ParamsFor(m) ==
    IF m \in CallMethods
    THEN {NoParams} \cup {[present |-> TRUE, name |-> n] : n \in ToolNames}
    ELSE {NoParams}

\* a payload: text that is no JSON ("garbage"), the JSON text null, no body at
\* all ("undefined"), or a JSON object with id, method and params
Object(id, m, p) == [json |-> "object", id |-> id, method |-> m, params |-> p]
NonObject(k) == [json |-> k, id |-> Undefined, method |-> Undefined, params |-> NoParams]

Payloads ==
    {NonObject(k) : k \in {"garbage", "null", "undefined"}}
    \cup UNION {{Object(id, m, p) : id \in Ids, p \in ParamsFor(m)} : m \in Methods}

----------------------------------------------------------------------------
(* handleJsonRpc of src/src/mcp.mjs *)

\* a lenient switch that also takes the spellings without the slash
SwitchCase_lenient(method) ==
    CASE method = Str("initialize") -> "initialize"
      [] method \in {Str("tools/list"), Str("toolslist")} -> "tools/list"
      [] method \in {Str("tools/call"), Str("toolscall")} -> "tools/call"
      [] OTHER -> "default"

\* switch (method): strict equality with the three case labels
SwitchCase(method) ==
    CASE method = Str("initialize") -> "initialize"
      [] method = Str("tools/list") -> "tools/list"
      [] method = Str("tools/call") -> "tools/call"
      [] OTHER -> "default"

\* the promise chain without its .catch, outside any try block: a failing
\* tool function leaves the request unanswered
toolsCall_uncaught(reg, id, name) ==
    IF ~Truthy(name)
    THEN Effect(<<err(id, MethodNotFound, "Method not found: tool", "")>>, <<>>, <<>>)
    ELSE IF name.t # "string" \/ ~MapGet(reg, name.v).found
    THEN Effect(<<err(id, MethodNotFound, "Method not found: tool", "")>>, <<>>, <<name>>)
    ELSE LET fn == MapGet(reg, name.v).tool.call
         IN  IF Behaviour(fn) = "return"
             THEN Effect(<<ok(id, ToolResult(fn))>>, <<fn>>, <<name>>)
             ELSE Effect(<<>>, <<fn>>, <<name>>)

\* case 'tools/call' with the catch block around it
toolsCall(reg, id, name) ==
    \* const tool = name && tools.get(name)
    IF ~Truthy(name)
    THEN Effect(<<err(id, MethodNotFound, "Method not found: tool", "")>>, <<>>, <<>>)
    ELSE IF name.t # "string" \/ ~MapGet(reg, name.v).found
    THEN Effect(<<err(id, MethodNotFound, "Method not found: tool", "")>>, <<>>, <<name>>)
    ELSE LET fn == MapGet(reg, name.v).tool.call
         IN  CASE Behaviour(fn) = "return" ->
                    Effect(<<ok(id, ToolResult(fn))>>, <<fn>>, <<name>>)
               \* .catch(() => err(-32000, 'Tool invocation error'))
               [] Behaviour(fn) = "reject" ->
                    Effect(<<err(id, ToolInvocationError, "Tool invocation error", "")>>,
                           <<fn>>, <<name>>)
               \* a synchronous throw of tool.call leaves the try block
               [] OTHER -> Effect(<<ParseErrorResponse>>, <<fn>>, <<name>>)

\* input || {} and the destructuring: a missing input has no fields
handleJsonRpc(reg, input) ==
    LET id == input.id
        c == SwitchCase(input.method)
    IN  CASE c = "initialize" -> Effect(<<ok(id, InitializeResult)>>, <<>>, <<>>)
          [] c = "tools/list" -> Effect(<<ok(id, ToolsResult(getTools(reg)))>>, <<>>, <<>>)
          [] c = "tools/call" -> toolsCall(reg, id, input.params.name)
          [] OTHER -> Effect(<<err(id, MethodNotFound, "Method not found", "")>>, <<>>, <<>>)

----------------------------------------------------------------------------
(* handleJsonRpc of the tool core, src/unnamed/part_006 *)

\* case 'tools/call'; the declarations of lines 54-62 read params and bind
\* locals only: they change neither the answer nor the registry
toolsCall_core(reg, id, name) ==
    \* const tool = name && getTool(name)
    IF ~Truthy(name)
    THEN Effect(<<err(id, MethodNotFound, "Method not found: tool", "")>>, <<>>, <<>>)
    ELSE IF name.t # "string" \/ ~MapGet(reg, name.v).found
    THEN Effect(<<err(id, MethodNotFound, "Method not found: tool", "")>>, <<>>, <<name>>)
    ELSE LET fn == MapGet(reg, name.v).tool.call
         IN  CASE Behaviour(fn) = "return" ->
                    Effect(<<ok(id, ToolResult(fn))>>, <<fn>>, <<name>>)
               \* String(e?.message || e) goes to error.data
               [] Behaviour(fn) = "reject" ->
                    Effect(<<err(id, ToolInvocationError, "Tool invocation error",
                                 FailureText(fn))>>, <<fn>>, <<name>>)
               [] OTHER -> Effect(<<ParseErrorResponse>>, <<fn>>, <<name>>)

handleJsonRpc_core(reg, input) ==
    LET id == input.id
        c == SwitchCase(input.method)
    IN  IF ~Truthy(input.method) \/ input.method.t # "string"
        THEN Effect(<<err(id, InvalidRequest, "Invalid Request: method missing", "")>>,
                    <<>>, <<>>)
        ELSE
        CASE c = "initialize" -> Effect(<<ok(id, InitializeResult)>>, <<>>, <<>>)
          [] c = "tools/list" -> Effect(<<ok(id, ToolsResult(getTools(reg)))>>, <<>>, <<>>)
          [] c = "tools/call" -> toolsCall_core(reg, id, input.params.name)
          [] OTHER -> Effect(<<err(id, MethodNotFound, "Method not found", "")>>, <<>>, <<>>)

----------------------------------------------------------------------------
(* The WebSocket handler of src/api/mcp.js (the same listener is in         *)
(* src/scripts/http-smoke-test.mjs, lines 201-282 and 385-466)              *)

makeResult(id, result) ==
    [status |-> 200, jsonrpc |-> TRUE, id |-> id, hasResult |-> TRUE,
     hasError |-> FALSE, code |-> 0, message |-> "", data |-> "", result |-> result]

\* makeError does not replace a missing id
makeError(id, code, message) ==
    [status |-> 200, jsonrpc |-> TRUE, id |-> id, hasResult |-> FALSE,
     hasError |-> TRUE, code |-> code, message |-> message, data |-> "",
     result |-> NoResult]

\* the tools object literal holds ping only
WsToolNames == <<"ping">>

\* tools[name] on an object literal: an own property, or a property inherited
\* from Object.prototype. "constructor" is the function Object, "__proto__"
\* is Object.prototype itself; both are truthy.
PropertyOf(name) ==
    CASE name = "ping" -> "tool"
      [] name = "constructor" -> "function"
      [] name = "__proto__" -> "object"
      [] OTHER -> "undefined"

\* { content: [], isError: true }
IsErrorResult == [kind |-> "isError", names |-> <<>>, fn |-> ""]
\* what Function.prototype.call gives when applied to Object: a fresh object
ObjectResult == [kind |-> "object", names |-> <<>>, fn |-> ""]

onMessage(payload) ==
    LET id == payload.id
        method == payload.method
        name == payload.params.name
    IN  \* JSON.parse throws, or destructuring null throws: the catch block
        IF payload.json # "object"
        THEN Effect(<<makeError(Null, ParseError, "Parse error")>>, <<>>, <<>>)
        ELSE IF ~Truthy(method) \/ method.t # "string"
        THEN Effect(<<makeError(OrNull(id), InvalidRequest,
                                "Invalid Request: method missing")>>, <<>>, <<>>)
        ELSE
        CASE method = Str("initialize") ->
                Effect(<<makeResult(id, InitializeResult)>>, <<>>, <<>>)
          [] method \in {Str("tools/list"), Str("toolslist")} ->
                Effect(<<makeResult(id, ToolsResult(WsToolNames))>>, <<>>, <<>>)
          [] method \in {Str("tools/call"), Str("toolscall")} ->
                IF ~Truthy(name) \/ name.t # "string"
                THEN Effect(<<makeError(id, InvalidParams,
                                        "Invalid params: name is required")>>, <<>>, <<>>)
                ELSE CASE PropertyOf(name.v) = "undefined" ->
                            Effect(<<makeError(id, MethodNotFound,
                                               "Method not found: tool")>>, <<>>, <<name>>)
                       [] PropertyOf(name.v) = "tool" ->
                            Effect(<<makeResult(id, ToolResult("ping"))>>,
                                   <<"ping">>, <<name>>)
                       \* Object.call({}) returns an object
                       [] PropertyOf(name.v) = "function" ->
                            Effect(<<makeResult(id, ObjectResult)>>, <<>>, <<name>>)
                       \* Object.prototype.call is not a function: TypeError, caught
                       [] OTHER ->
                            Effect(<<makeResult(id, IsErrorResult)>>, <<>>, <<name>>)
          [] OTHER -> Effect(<<makeError(id, MethodNotFound, "Method not found")>>,
                             <<>>, <<>>)

----------------------------------------------------------------------------
(* POST /mcp/http of src/run.mjs *)

\* what express.json() leaves in req.body: text that is no JSON object or
\* array is refused before the route runs (status 400, no JSON-RPC body)
BodyParserRejects(payload) == payload.json \in {"garbage", "null"}

BadRequest ==
    [status |-> 400, jsonrpc |-> FALSE, id |-> Undefined, hasResult |-> FALSE,
     hasError |-> FALSE, code |-> 0, message |-> "", data |-> "", result |-> NoResult]

postMcpHttp(reg, payload) ==
    IF BodyParserRejects(payload) THEN Effect(<<BadRequest>>, <<>>, <<>>)
    ELSE handleJsonRpc(reg, payload)

----------------------------------------------------------------------------
(* The backend configuration of src/src/mcp.mjs and src/unnamed/part_005 *)

\* nothing configured: every setting undefined
NoConfig ==
    [host |-> "", protocol |-> "", port |-> Undefined, apiKey |-> "",
     collection |-> "", envQueryBy |-> "", envQueryByWeights |-> ""]

\* tsClient = null
NoClient == [null |-> TRUE, host |-> "", protocol |-> "", port |-> Undefined, apiKey |-> ""]

\* new Typesense.Client({ nodes: [{ host, port, protocol }], apiKey }) when
\* host, protocol, key and a numeric port are all set, else null
BuildClient(c) ==
    IF c.host # "" /\ c.protocol # "" /\ c.apiKey # "" /\ c.port.t = "number"
    THEN [null |-> FALSE, host |-> c.host, protocol |-> c.protocol, port |-> c.port,
          apiKey |-> c.apiKey]
    ELSE NoClient

----------------------------------------------------------------------------
(* The SSE streams of the HTTP servers *)

StreamIds == 1..MaxStreams

\* a stream no client has opened yet
NoStream == [state |-> "none", events |-> <<>>, timer |-> FALSE]

NoStreams == [s \in StreamIds |-> NoStream]

\* no token configured, no client connected
NoHttp == REQUIRED_TOKEN = "" /\ sseClients = {} /\ streams = NoStreams

----------------------------------------------------------------------------
(* State machine *)

Idle == [op |-> "idle"]

Init ==
    /\ rev \in {"mcp", "core", "ws"}
    /\ tools = InitialTools(rev)
    /\ registered = Keys(tools)
    /\ nreg = 0
    /\ last = Idle
    /\ config = NoConfig
    /\ tsClient = NoClient
    /\ cachedQueryBy = ""
    /\ NoHttp
    /\ searches = <<>>

RegisterTool ==
    /\ rev \in {"mcp", "core"}
    /\ last = Idle
    /\ nreg < MaxRegs
    /\ \E name \in RegNames, def \in Defs :
          LET r == registerTool(tools, name, def)
          IN  /\ tools' = r.tools
              /\ registered' = IF r.threw THEN registered ELSE registered \cup {name.v}
              /\ last' = [op |-> "register", name |-> name, def |-> def,
                          threw |-> r.threw, before |-> tools]
    /\ nreg' = nreg + 1
    /\ UNCHANGED <<rev, config, tsClient, cachedQueryBy, httpVars, searches>>

\* the client has taken the answer; the next operation can start
Done ==
    /\ last # Idle
    /\ last' = Idle
    /\ UNCHANGED <<rev, tools, registered, nreg, config, tsClient, cachedQueryBy, httpVars, searches>>

\* the answer to one request, with the request kept beside it
Exchange(payload, eff) ==
    [op |-> "request", req |-> payload, out |-> eff.out, invoked |-> eff.invoked,
     lookups |-> eff.lookups]

HttpPost ==
    /\ rev = "mcp"
    /\ last = Idle
    /\ \E payload \in Payloads : last' = Exchange(payload, postMcpHttp(tools, payload))
    /\ UNCHANGED <<rev, tools, registered, nreg, config, tsClient, cachedQueryBy, httpVars, searches>>

CoreCall ==
    /\ rev = "core"
    /\ last = Idle
    /\ \E payload \in Payloads :
          /\ payload.json # "garbage"
          /\ last' = Exchange(payload, handleJsonRpc_core(tools, payload))
    /\ UNCHANGED <<rev, tools, registered, nreg, config, tsClient, cachedQueryBy, httpVars, searches>>

WsMessage ==
    /\ rev = "ws"
    /\ last = Idle
    /\ \E payload \in Payloads :
          /\ payload.json # "undefined"
          /\ last' = Exchange(payload, onMessage(payload))
    /\ UNCHANGED <<rev, tools, registered, nreg, config, tsClient, cachedQueryBy, httpVars, searches>>

Next == RegisterTool \/ HttpPost \/ CoreCall \/ WsMessage \/ Done

Spec == Init /\ [][Next]_vars

----------------------------------------------------------------------------
(* typesense_search of src/unnamed/part_006: strings *)

\* String.prototype.trim on the identifiers of the model
Trim(s) ==
    CASE s = " a1" -> "a1"
      [] s = " mcp" -> "mcp"
      [] OTHER -> s

\* String.prototype.toLowerCase on the identifiers of the model
ToLowerCase(s) ==
    CASE s = "A1" -> "a1"
      [] s = "B2" -> "b2"
      [] s = "X9" -> "x9"
      [] OTHER -> s

\* .map((v) => String(v).trim()) and .map((v) => v.toLowerCase())
TrimAll(seq) == [i \in 1..Len(seq) |-> Trim(seq[i])]
LowerAll(seq) == [i \in 1..Len(seq) |-> ToLowerCase(seq[i])]

NonEmpty(s) == s # ""

\* Array.from(new Set(seq)): the first occurrence of each value, in order
RECURSIVE Dedup(_)
Dedup(seq) ==
    IF seq = <<>> THEN <<>>
    ELSE LET front == Dedup(SubSeq(seq, 1, Len(seq) - 1))
             x == seq[Len(seq)]
         IN  IF x \in Range(front) THEN front ELSE Append(front, x)

\* the identifier texts callers send (the empty string is no identifier)
IdentifierTexts == {"", "A1", "a1", " a1", "b2", "c3"}

----------------------------------------------------------------------------
(* typesense_search: the backend, an untrusted collaborator *)

\* filter_by candidates of the batch lookup, in the order tried
BatchFields == <<"objectID", "object_id", "id", "mpn", "manufacturer_part_number">>

\* fields of the per-identifier lookup, in the order tried
FallbackFields ==
    <<"objectID", "object_id", "id", "mpn", "manufacturer_part_number",
      "vendor_mpn", "sku", "mpn_normalized">>

EmptyDoc ==
    [objectID |-> "", object_id |-> "", id |-> "", mpn |-> "",
     manufacturer_part_number |-> "", vendor_mpn |-> "", sku |-> "",
     mpn_normalized |-> "", name |-> "", brand |-> "", item_type |-> "",
     category |-> "", price |-> Undefined, list_price |-> Undefined,
     availability |-> Undefined, image |-> "", spec_sheet |-> ""]

\* the documents a collection may hold, in the backend's ranking order
DocUniverse ==
    << [EmptyDoc EXCEPT !.objectID = "A1", !.id = "1", !.name = "Alpha",
                        !.brand = "Acme", !.category = "software",
                        !.price = Num("10"), !.list_price = Str("12"),
                        !.availability = Num("3")],
       [EmptyDoc EXCEPT !.objectID = "X9", !.id = "2", !.mpn = "b2", !.name = "Beta",
                        !.price = Str("abc"), !.image = "http://img/x9.jpg"],
       [EmptyDoc EXCEPT !.id = "3", !.sku = "c3", !.name = "Gamma",
                        !.price = Num("20")] >>

\* a backend: the documents of the collection, whether its string filters
\* ignore case, and the requests it answers with an error (a filter field, or
\* "keyword" for the free-text query)
Backends ==
    [docs : SUBSET (1..Len(DocUniverse)),
     ignoreCase : BOOLEAN,
     failing : {{}, {"objectID"}, {"objectID", "object_id", "id"},
                Range(FallbackFields) \cup {"keyword"}}]

Matches(b, value, wanted) ==
    /\ value # ""
    /\ \E w \in Range(wanted) :
          IF b.ignoreCase THEN ToLowerCase(value) = ToLowerCase(w) ELSE value = w

\* the documents at the given positions of the collection
DocsAt(idx) == [i \in 1..Len(idx) |-> DocUniverse[idx[i]]]

Take(seq, n) == SubSeq(seq, 1, IF Len(seq) < n THEN Len(seq) ELSE n)

\* documents().search({ q: '*', filter_by: field:=[wanted], per_page })
FilterSearch(b, field, wanted, perPage) ==
    IF field \in b.failing THEN [threw |-> TRUE, hits |-> <<>>]
    ELSE LET all == SelectSeq([i \in 1..Len(DocUniverse) |-> i],
                              LAMBDA i : i \in b.docs
                                         /\ Matches(b, DocUniverse[i][field], wanted))
         IN  [threw |-> FALSE, hits |-> DocsAt(Take(all, perPage))]

\* documents().search({ q: keywords, per_page: 20 })
KeywordSearch(b) ==
    IF "keyword" \in b.failing THEN [threw |-> TRUE, hits |-> <<>>]
    ELSE [threw |-> FALSE,
          hits |-> DocsAt(SelectSeq([i \in 1..Len(DocUniverse) |-> i],
                                    LAMBDA i : i \in b.docs))]

----------------------------------------------------------------------------
(* typesense_search: the tool function *)

\* Number(x) where it is finite, else 0
FiniteOrZero(x) ==
    CASE x.t = "number" -> x
      [] x.t = "string" /\ x.v \in {"10", "12", "20", "3"} -> Num(x.v)
      [] OTHER -> Num("0")

\* toAvailability(Number(rec?.availability))
toAvailability(x) == FiniteOrZero(x)

mapRecord(rec) ==
    LET oid == IF rec.objectID # "" THEN rec.objectID ELSE rec.object_id
    IN  [objectID |-> oid, name |-> rec.name, brand |-> rec.brand,
         item_type |-> rec.item_type, category |-> rec.category,
         price |-> FiniteOrZero(rec.price), list_price |-> FiniteOrZero(rec.list_price),
         availability |-> toAvailability(rec.availability),
         image |-> rec.image, spec_sheet |-> rec.spec_sheet,
         url |-> <<"https://quickitquote.com/catalog/", oid>>]

\* the two declarations of ids that the file holds one after the other
\* (lines 212-218 and line 219); "decl" says which one the program runs
NormalizeIds(decl, objectID, objectIDs) ==
    IF decl = "set"
    THEN Dedup(LowerAll(TrimAll(SelectSeq(objectIDs \o (IF objectID # "" THEN <<objectID>>
                                                         ELSE <<>>),
                                          NonEmpty))))
    ELSE LowerAll(objectIDs)

\* a loop over filterByCandidates without the break: every candidate is
\* queried and the hits are those of the last one that has any
RECURSIVE BatchLookup_noBreak(_, _, _)
BatchLookup_noBreak(b, ids, k) ==
    IF k > Len(BatchFields) THEN [hits |-> <<>>, tried |-> <<>>]
    ELSE LET r == FilterSearch(b, BatchFields[k], ids, Len(ids))
             rest == BatchLookup_noBreak(b, ids, k + 1)
         IN  [hits |-> IF rest.hits # <<>> THEN rest.hits ELSE r.hits,
              tried |-> <<BatchFields[k]>> \o rest.tried]

\* the loop over filterByCandidates: [hits, tried]
RECURSIVE BatchLookup(_, _, _)
BatchLookup(b, ids, k) ==
    IF k > Len(BatchFields) THEN [hits |-> <<>>, tried |-> <<>>]
    ELSE LET r == FilterSearch(b, BatchFields[k], ids, Len(ids))
             rest == BatchLookup(b, ids, k + 1)
         IN  IF ~r.threw /\ Len(r.hits) > 0
             THEN [hits |-> r.hits, tried |-> <<BatchFields[k]>>]
             ELSE [hits |-> rest.hits, tried |-> <<BatchFields[k]>> \o rest.tried]

\* fallbackLookup(oid), from field number k on
RECURSIVE fallbackLookup(_, _, _)
fallbackLookup(b, oid, k) ==
    IF k > Len(FallbackFields) THEN mapRecord([EmptyDoc EXCEPT !.objectID = oid])
    ELSE LET r == FilterSearch(b, FallbackFields[k], <<oid>>, 1)
         IN  IF ~r.threw /\ Len(r.hits) > 0 THEN mapRecord(r.hits[1])
             ELSE fallbackLookup(b, oid, k + 1)

\* hits.find(...): the first hit one of whose eight fields, lowercased, is oid
HitFor(hits, oid) ==
    SelectSeq(hits, LAMBDA d : \E f \in Range(FallbackFields) :
                                  d[f] # "" /\ ToLowerCase(d[f]) = oid)

ProductFor(b, hits, oid) ==
    IF HitFor(hits, oid) # <<>> THEN mapRecord(HitFor(hits, oid)[1])
    ELSE fallbackLookup(b, oid, 1)

\* the branch the call takes: if (client && ids.length > 0) at line 221, else
\* if (client && typeof keywords === 'string' && keywords.trim().length > 0)
\* at line 288, else neither
pathTaken(decl, args) ==
    IF args.client /\ Len(NormalizeIds(decl, args.objectID, args.objectIDs)) > 0
    THEN "identifier"
    ELSE IF args.client /\ Trim(args.keywords) # "" THEN "keyword"
    ELSE "none"

\* call({ objectID, objectIDs, keywords }): the products list returned.
\* args.client says whether host and API key are set
typesenseSearch(b, decl, args) ==
    LET ids == NormalizeIds(decl, args.objectID, args.objectIDs)
    IN  IF args.client /\ Len(ids) > 0
        THEN LET hits == BatchLookup(b, ids, 1).hits
             IN  [i \in 1..Len(ids) |-> ProductFor(b, hits, ids[i])]
        ELSE IF args.client /\ Trim(args.keywords) # ""
        THEN IF KeywordSearch(b).threw THEN <<>>
             ELSE [i \in 1..Len(KeywordSearch(b).hits) |-> mapRecord(KeywordSearch(b).hits[i])]
        ELSE <<>>

----------------------------------------------------------------------------
(* typesense_search of src/src/mcp.mjs *)

\* an argument whose conversion to a string throws: an object that JSON can
\* carry, such as {"toString": 1}
Unprintable == [t |-> "object", v |-> "unprintable"]

\* `${x}` and String(x): the text, unless the conversion throws
Template(x) ==
    IF x = Unprintable THEN [threw |-> TRUE, text |-> ""]
    ELSE [threw |-> FALSE, text |-> IF x.t = "undefined" THEN "undefined" ELSE x.v]

\* typeof x === 'number' ? x : Number(x) || 0
NumberOrZero(x) ==
    CASE x.t = "number" -> x
      [] x.t = "string" /\ x.v \in {"10", "12", "20", "3"} -> Num(x.v)
      [] OTHER -> Num("0")

DefaultQueryBy == "name,description,brand,category"
DiscoveredQueryBy == "name,brand"

\* the documents of the collection mcp.mjs searches
McpDocs ==
    << DocUniverse[1], DocUniverse[3],
       [EmptyDoc EXCEPT !.price = Str("12"), !.category = "software"] >>

\* a backend: the documents, whether the schema can be retrieved and has
\* string fields, and the query_by lists whose search it answers with an error
McpBackends ==
    [docs : SUBSET (1..Len(McpDocs)),
     schema : {"ok", "nostrings", "fail"},
     rejects : {{}, {DiscoveredQueryBy}, {"title", DiscoveredQueryBy, DefaultQueryBy},
                {DiscoveredQueryBy, "name"},
                {"title", DiscoveredQueryBy, "name", DefaultQueryBy},
                {"title", DiscoveredQueryBy, "name", DefaultQueryBy, "*"}}]

RetrieveRequest(c) == [op |-> "retrieve", collection |-> c.collection, queryBy |-> ""]
\* a search that keeps querying the collection read at module load
SearchRequest_stale(c, qb) == [op |-> "search", collection |-> "products", queryBy |-> qb]

SearchRequest(c, qb) == [op |-> "search", collection |-> c.collection, queryBy |-> qb]

\* if (!cachedQueryBy) { ... }: the list after resolution and the request made
ResolveQueryBy(b, c, cached) ==
    IF cached # "" THEN [cached |-> cached, requests |-> <<>>]
    ELSE IF c.envQueryBy # "" THEN [cached |-> c.envQueryBy, requests |-> <<>>]
    ELSE [cached |-> IF b.schema = "ok" THEN DiscoveredQueryBy ELSE DefaultQueryBy,
          requests |-> <<RetrieveRequest(c)>>]

\* the resolution of src/unnamed/part_005:154-170: no else after the
\* assignment of envQueryBy, so the schema is retrieved and its list stored
ResolveQueryBy_older(b, c, cached) ==
    IF cached # "" THEN [cached |-> cached, requests |-> <<>>]
    ELSE [cached |-> IF b.schema = "ok" THEN DiscoveredQueryBy ELSE DefaultQueryBy,
          requests |-> <<RetrieveRequest(c)>>]

\* the hits of one search: the documents, restricted to the category if given
McpHits(b, category) ==
    SelectSeq([i \in 1..Len(McpDocs) |-> i],
              LAMBDA i : /\ i \in b.docs
                         /\ (Truthy(category) => McpDocs[i].category = category.v))

\* attempt(cachedQueryBy), then attempt('name'), then the default list
Attempts(b, c, qb) ==
    LET tries == <<qb, "name", DefaultQueryBy>>
        n == IF qb \notin b.rejects THEN 1
             ELSE IF "name" \notin b.rejects THEN 2 ELSE 3
    IN  [threw |-> tries[n] \in b.rejects,
         requests |-> [i \in 1..n |-> SearchRequest(c, tries[i])]]

\* attempt(cachedQueryBy), then attempt('name'), then attempt('*')
Attempts_older(b, c, qb) ==
    LET tries == <<qb, "name", "*">>
        n == IF qb \notin b.rejects THEN 1
             ELSE IF "name" \notin b.rejects THEN 2 ELSE 3
    IN  [threw |-> tries[n] \in b.rejects,
         requests |-> [i \in 1..n |-> SearchRequest(c, tries[i])]]

\* `${idx + 1}`
IndexText == <<"1", "2", "3">>

Qty(quantity) == IF quantity.t = "number" /\ quantity.v # "0" THEN quantity ELSE Num("1")

\* (result.hits || []).map((hit, idx) => ...) for one hit
McpProduct(doc, idx, category, qty) ==
    [threw |-> doc.name = "" /\ Template(category).threw,
     product |->
        [sku |-> IF doc.sku # "" THEN <<doc.sku>> ELSE IF doc.id # "" THEN <<doc.id>>
                 ELSE <<"TS-", IndexText[idx]>>,
         name |-> IF doc.name # "" THEN <<doc.name>>
                  ELSE <<Template(category).text, " item">>,
         brand |-> IF doc.brand # "" THEN doc.brand ELSE "Unknown",
         price |-> NumberOrZero(doc.price),
         quantity |-> qty]]

MockProduct(sku, level, price, args) ==
    [sku |-> <<sku>>,
     name |-> <<Template(args.category).text, level, Template(args.keywords).text>>,
     brand |-> "Generic", price |-> Num(price), quantity |-> Qty(args.quantity)]

\* call({ category, keywords, quantity }) with the module state (config,
\* client, cached list): whether the promise rejects, the products, the cached
\* list afterwards and the backend requests made
searchOutcome(resolved, tried, b, c, client, cached, args) ==
    LET unprintable == Template(args.category).threw \/ Template(args.keywords).threw
        qThrows == Template(args.keywords).threw
        hits == McpHits(b, args.category)
        mapped == [i \in 1..Len(hits) |->
                     McpProduct(McpDocs[hits[i]], i, args.category, Qty(args.quantity))]
        failed == qThrows \/ tried.threw \/ \E i \in 1..Len(hits) : mapped[i].threw
        requests == resolved.requests \o (IF qThrows THEN <<>> ELSE tried.requests)
    IN  IF client.null \/ c.collection = ""
        THEN [threw |-> unprintable,
              products |-> IF unprintable THEN <<>>
                           ELSE << MockProduct("MOCK-001", " basic - ", "10", args),
                                   MockProduct("MOCK-002", " standard - ", "20", args),
                                   MockProduct("MOCK-003", " pro - ", "30", args) >>,
              cached |-> cached, requests |-> <<>>]
        ELSE IF ~failed
        THEN [threw |-> FALSE,
              products |-> [i \in 1..Len(hits) |-> mapped[i].product],
              cached |-> resolved.cached, requests |-> requests]
        ELSE [threw |-> unprintable,
              products |-> IF unprintable THEN <<>>
                           ELSE <<MockProduct("FALLBACK-001", " fallback - ", "15", args)>>,
              cached |-> resolved.cached, requests |-> requests]

\* typesense_search of src/src/mcp.mjs
typesenseSearch_mcp(b, c, client, cached, args) ==
    searchOutcome(ResolveQueryBy(b, c, cached),
                  Attempts(b, c, ResolveQueryBy(b, c, cached).cached),
                  b, c, client, cached, args)

\* typesense_search of src/unnamed/part_005:122-206
typesenseSearch_older(b, c, client, cached, args) ==
    searchOutcome(ResolveQueryBy_older(b, c, cached),
                  Attempts_older(b, c, ResolveQueryBy_older(b, c, cached).cached),
                  b, c, client, cached, args)

----------------------------------------------------------------------------
(* typesense_search of src/unnamed/part_005 *)

\* coerceNum(v) ?? d: the finite number v stands for, else d
CoerceNumOr(x, d) ==
    CASE x.t = "number" -> x
      [] x.t = "string" /\ x.v \in {"10", "12", "20", "3"} -> Num(x.v)
      [] x.t = "null" -> Num("0")
      [] x.t = "string" /\ x.v = "" -> Num("0")
      [] OTHER -> d

\* a ?? b on texts ("" is a missing field)
Coalesce(a, b) == IF a # "" THEN a ELSE b

\* the documents the collection may hold
P5Docs ==
    << [EmptyDoc EXCEPT !.id = "A1", !.object_id = "A1", !.name = "Alpha",
                        !.brand = "Acme", !.category = "software",
                        !.price = Num("10"), !.list_price = Str("12"),
                        !.availability = Num("3"),
                        !.image = "https://cdn.quickitquote.com/a1.jpg"],
       [EmptyDoc EXCEPT !.id = "b2", !.sku = "b2", !.name = "Beta", !.brand = "Bolt",
                        !.category = "hardware", !.price = Str("20"),
                        !.image = "http://img/b2.jpg"],
       [EmptyDoc EXCEPT !.id = "c3", !.objectID = "c3", !.name = "Gamma",
                        !.category = "software"] >>

\* return null
NoProduct == [valid |-> FALSE, product |-> EmptyDoc]

\* mapDoc(doc); the file declares image and spec_sheet twice (lines 524-527
\* and lines 529-530) and "decl" says which declaration the program runs
mapDoc(doc, decl) ==
    LET oid == Coalesce(doc.object_id, Coalesce(doc.objectID,
                  Coalesce(doc.mpn_normalized, Coalesce(doc.sku, doc.id))))
        cdnImage == IF doc.image = "https://cdn.quickitquote.com/a1.jpg"
                    THEN <<doc.image>> ELSE <<"">>
    IN  IF oid = "" \/ doc.name = "" \/ doc.brand = "" \/ doc.category = ""
        THEN NoProduct
        ELSE [valid |-> TRUE,
              product |->
                [objectID |-> oid, name |-> doc.name, brand |-> doc.brand,
                 item_type |-> doc.item_type, category |-> doc.category,
                 price |-> CoerceNumOr(doc.price, Num("0")),
                 list_price |-> CoerceNumOr(doc.list_price, Null),
                 availability |-> CoerceNumOr(doc.availability, Num("0")),
                 image |-> IF decl = "raw" THEN cdnImage
                           ELSE <<"https://cdn.quickitquote.com/catalog/", oid, ".jpg">>,
                 spec_sheet |-> IF decl = "raw" THEN <<"">>
                                ELSE <<"https://cdn.quickitquote.com/specs/", oid, ".pdf">>,
                 url |-> <<"https://quickitquote.com/catalog/", oid>>]]

\* a backend: the documents, whether documents(id).retrieve() and
\* documents().search() fail, and what retrieving the schema gives
P5Backends ==
    [docs : SUBSET (1..Len(P5Docs)),
     retrieveFails : BOOLEAN,
     searchFails : BOOLEAN,
     schema : {"ok", "fail"}]

\* the valid products among the mapped documents, in order
Valid(mapped) ==
    LET kept == SelectSeq(mapped, LAMBDA m : m.valid)
    IN  [i \in 1..Len(kept) |-> kept[i].product]

\* documents(id).retrieve(): the positions of the document with that id
RetrieveById(b, id) ==
    SelectSeq([i \in 1..Len(P5Docs) |-> i],
              LAMBDA i : i \in b.docs /\ P5Docs[i].id = id)

\* documents().search({ q, filter_by category }): the positions of the hits
P5Hits(b, q, category) ==
    SelectSeq([i \in 1..Len(P5Docs) |-> i],
              LAMBDA i : /\ i \in b.docs
                         /\ (q # "*" => ToLowerCase(P5Docs[i].id) = ToLowerCase(q))
                         /\ (category # "" => P5Docs[i].category = category))

DocumentRequest(c, id) == [op |-> "document", collection |-> c.collection, queryBy |-> id]

\* the body of for (const id of uniqueIds) for one id: products pushed and
\* requests made
LookupOne(b, c, cached, decl, id, category) ==
    LET found == RetrieveById(b, id)
        qb == IF cached # "" THEN cached
              ELSE IF c.envQueryBy # "" THEN c.envQueryBy ELSE "name"
        hits == P5Hits(b, id, category)
        mappedHits == [i \in 1..Len(hits) |-> mapDoc(P5Docs[hits[i]], decl)]
    IN  IF ~b.retrieveFails /\ found # <<>>
        THEN [products |-> Valid(<<mapDoc(P5Docs[found[1]], decl)>>),
              requests |-> <<DocumentRequest(c, id)>>]
        ELSE [products |-> IF b.searchFails THEN <<>>
                           ELSE SelectSeq(Valid(mappedHits), LAMBDA m : m.objectID = id),
              requests |-> <<DocumentRequest(c, id), SearchRequest(c, qb)>>]

RECURSIVE LookupAll(_, _, _, _, _, _)
LookupAll(b, c, cached, decl, ids, category) ==
    IF ids = <<>> THEN [products |-> <<>>, requests |-> <<>>]
    ELSE LET one == LookupOne(b, c, cached, decl, Head(ids), category)
             rest == LookupAll(b, c, cached, decl, Tail(ids), category)
         IN  [products |-> one.products \o rest.products,
              requests |-> one.requests \o rest.requests]

\* call({ objectID, objectIDs, keywords, category }) with the module state:
\* the products, the cached list afterwards and the backend requests made
typesenseSearch_p5(b, c, client, cached, decl, args) ==
    LET uniqueIds == Dedup(SelectSeq(args.objectIDs, NonEmpty)
                           \o (IF args.objectID # "" THEN <<args.objectID>> ELSE <<>>))
        looked == LookupAll(b, c, cached, decl, uniqueIds, args.category)
        resolved == ResolveQueryBy(b, c, cached)
        hits == P5Hits(b, "*", args.category)
        request == <<SearchRequest(c, resolved.cached)>>
    IN  IF client.null \/ c.collection = ""
        THEN [products |-> <<>>, cached |-> cached, requests |-> <<>>]
        ELSE IF uniqueIds # <<>>
        THEN [products |-> looked.products, cached |-> cached,
              requests |-> looked.requests]
        ELSE IF b.searchFails
        THEN [products |-> <<>>, cached |-> resolved.cached,
              requests |-> resolved.requests \o request]
        ELSE [products |-> Valid([i \in 1..Len(hits) |-> mapDoc(P5Docs[hits[i]], decl)]),
              cached |-> resolved.cached,
              requests |-> resolved.requests \o request]

----------------------------------------------------------------------------
(* typesense_config_set of src/unnamed/part_005 *)

\* a patch value like { "toString": 1 }: String(v) raises a TypeError
UnprintableText == "{toString:1}"

\* { applied: false }
FailedResult ==
    [applied |-> FALSE, host |-> "", protocol |-> "", port |-> Num("0"),
     collection |-> "", query_by |-> "", query_by_weights |-> "", apiKeyLength |-> 0]

\* sanitize(v): trimmed, wrapping quotes removed, on the texts of the model
Sanitize(v) ==
    CASE v = " ts2 " -> "ts2"
      [] v = " k2 " -> "k2"
      [] v = "\"new\"" -> "new"
      [] OTHER -> v

\* String.prototype.length of the API keys of the model
KeyLength(k) ==
    CASE k = "" -> 0
      [] k \in {"k1", "k2"} -> 2
      [] OTHER -> 4

\* a result that reports the key beside its length
configResult_echoKey(c, cached) ==
    [applied |-> TRUE, host |-> c.host, protocol |-> c.protocol,
     port |-> IF c.port.t = "number" THEN c.port ELSE Num("0"),
     collection |-> c.collection,
     query_by |-> Coalesce(cached, c.envQueryBy),
     query_by_weights |-> c.apiKey,
     apiKeyLength |-> KeyLength(c.apiKey)]

\* the value returned: the effective configuration and the length of the key
configResult(c, cached) ==
    [applied |-> TRUE,
     host |-> c.host,
     protocol |-> c.protocol,
     port |-> IF c.port.t = "number" THEN c.port ELSE Num("0"),
     collection |-> c.collection,
     query_by |-> Coalesce(cached, c.envQueryBy),
     query_by_weights |-> c.envQueryByWeights,
     apiKeyLength |-> KeyLength(c.apiKey)]

\* a config_set that replaces the whole configuration by the patch
configSet_replaceAll(c, cached, client, patch) ==
    LET applied ==
            [c EXCEPT !.host = Sanitize(patch.host),
                      !.protocol = Sanitize(patch.protocol),
                      !.port = IF patch.port.t = "number" THEN patch.port ELSE Undefined,
                      !.apiKey = Sanitize(patch.apiKey),
                      !.collection = Sanitize(patch.collection),
                      !.envQueryByWeights = Sanitize(patch.query_by_weights)]
    IN  [config |-> applied,
         cached |-> Sanitize(patch.query_by),
         client |-> BuildClient(applied),
         result |-> configResult(applied, Sanitize(patch.query_by))]

\* call(args): the configuration, the cached list and the client afterwards,
\* and the result returned. A text "" in the patch is a field that is absent
\* (or falsy). The assignments run in the order of lines 690-701; when
\* sanitize(query_by_weights) raises, the fields before it are assigned
\* already, rebuildTypesenseClient() of line 703 is not reached and the catch
\* block returns { applied: false }
configSet(c, cached, client, patch) ==
    LET applied ==
            [c EXCEPT
               !.host = IF patch.host # "" THEN Sanitize(patch.host) ELSE @,
               !.protocol = IF patch.protocol # "" THEN Sanitize(patch.protocol) ELSE @,
               !.port = IF patch.port.t = "number" THEN patch.port ELSE @,
               !.apiKey = IF patch.apiKey # "" THEN Sanitize(patch.apiKey) ELSE @,
               !.collection = IF patch.collection # "" THEN Sanitize(patch.collection)
                              ELSE @,
               !.envQueryByWeights = IF patch.query_by_weights # ""
                                     THEN Sanitize(patch.query_by_weights) ELSE @]
        newCached == IF patch.query_by # "" THEN Sanitize(patch.query_by) ELSE cached
    IN  IF patch.query_by_weights = UnprintableText
        THEN [config |-> [applied EXCEPT !.envQueryByWeights = c.envQueryByWeights],
              cached |-> newCached,
              client |-> client,
              result |-> FailedResult]
        ELSE [config |-> applied,
              cached |-> newCached,
              client |-> BuildClient(applied),
              result |-> configResult(applied, newCached)]

----------------------------------------------------------------------------
(* State machine of the search adapter: calls of typesense_search *)

\* arrays of at most n identifiers
IdArrays(n) == UNION {[1..k -> IdentifierTexts] : k \in 0..n}

SearchArgs ==
    [objectID : {"", "a1", "B2"},
     objectIDs : IdArrays(MaxIds),
     keywords : {"", "laptop"},
     client : BOOLEAN]

InitSearch ==
    /\ rev = "core"
    /\ tools = InitialTools(rev)
    /\ registered = Keys(tools)
    /\ nreg = 0
    /\ last = Idle
    /\ config = NoConfig
    /\ tsClient = NoClient
    /\ cachedQueryBy = ""
    /\ NoHttp
    /\ searches = <<>>

Search ==
    /\ last = Idle
    /\ \E b \in Backends, decl \in {"set", "map"}, args \in SearchArgs :
          last' = [op |-> "search", backend |-> b, decl |-> decl, args |-> args,
                   batch |-> BatchLookup(b, NormalizeIds(decl, args.objectID,
                                                         args.objectIDs), 1),
                   path |-> pathTaken(decl, args),
                   products |-> typesenseSearch(b, decl, args)]
    /\ UNCHANGED <<rev, tools, registered, nreg, config, tsClient, cachedQueryBy, httpVars, searches>>

NextSearch == Search \/ Done

SpecSearch == InitSearch /\ [][NextSearch]_vars

----------------------------------------------------------------------------
(* State machine of src/src/mcp.mjs: tools/call of typesense_search *)

Configured ==
    [host |-> "ts1", protocol |-> "https", port |-> Num("443"), apiKey |-> "k1",
     collection |-> "products", envQueryBy |-> "", envQueryByWeights |-> ""]

\* the environments the module is loaded in
McpConfigs ==
    {NoConfig, Configured, [Configured EXCEPT !.envQueryBy = "title"],
     [Configured EXCEPT !.collection = ""]}

McpArgs ==
    [category : {Undefined, Str("software"), Unprintable},
     keywords : {Undefined, Str(""), Str("laptop"), Unprintable},
     quantity : {Undefined, Num("2")}]

ProductsResult == [kind |-> "products", names |-> <<>>, fn |-> "typesense_search"]

\* Promise.resolve(tool.call(args || {})).then(ok).catch(() => err(-32000, ...))
\* for an async call function
callResponse(id, rejected) ==
    IF rejected THEN err(id, ToolInvocationError, "Tool invocation error", "")
    ELSE ok(id, ProductsResult)

InitMcpSearch ==
    /\ rev \in {"mcp", "older"}
    /\ tools = InitialTools(rev)
    /\ registered = Keys(tools)
    /\ nreg = 0
    /\ last = Idle
    /\ config \in McpConfigs
    /\ tsClient = BuildClient(config)
    /\ cachedQueryBy = ""
    /\ NoHttp
    /\ searches = <<>>

McpSearch ==
    /\ last = Idle
    /\ \E b \in McpBackends, args \in McpArgs :
          LET r == IF rev = "older"
                   THEN typesenseSearch_older(b, config, tsClient, cachedQueryBy, args)
                   ELSE typesenseSearch_mcp(b, config, tsClient, cachedQueryBy, args)
          IN  /\ cachedQueryBy' = r.cached
              /\ last' = [op |-> "mcpsearch", backend |-> b, args |-> args,
                          threw |-> r.threw, products |-> r.products,
                          requests |-> r.requests, cachedBefore |-> cachedQueryBy,
                          out |-> <<callResponse(Num("7"), r.threw)>>]
    /\ UNCHANGED <<rev, tools, registered, nreg, config, tsClient, httpVars, searches>>

NextMcpSearch == McpSearch \/ Done

SpecMcpSearch == InitMcpSearch /\ [][NextMcpSearch]_vars

----------------------------------------------------------------------------
(* State machine of src/unnamed/part_005: typesense_config_set and        *)
(* typesense_search. The handler assigns TS_HOST, TS_PROTOCOL and TS_PORT, *)
(* so the model takes them as variables of the module like                 *)
(* TS_API_KEY_TRIMMED and TS_COLLECTION (lines 395-396).                   *)

AllPatches ==
    [host : {"", " ts2 "},
     protocol : {"", "http"},
     port : {Undefined, Num("8108"), Str("8108")},
     apiKey : {"", "key3", "abcd", " k2 "},
     collection : {"", "new", "\"new\""},
     query_by : {"", "sku"},
     query_by_weights : {"", "2,1", UnprintableText}]

\* the number of fields a patch carries
Supplied_n(patch) ==
    Cardinality({f \in {"host", "protocol", "apiKey", "collection", "query_by",
                        "query_by_weights"} : patch[f] # ""})
    + (IF patch.port = Undefined THEN 0 ELSE 1)

\* partial patches: at most two fields
Patches == {patch \in AllPatches : Supplied_n(patch) <= 2}

P5Args ==
    [objectID : {"", "A1"},
     objectIDs : {<<>>, <<"b2">>, <<"zz", "A1">>},
     category : {"", "software"}]

P5SearchBackends ==
    {b \in P5Backends : b.docs \in {{}, {2}, 1..Len(P5Docs)}}

InitConfig ==
    /\ rev = "p5"
    /\ tools = InitialTools(rev)
    /\ registered = Keys(tools)
    /\ nreg = 0
    /\ last = Idle
    /\ config \in {NoConfig, Configured}
    /\ tsClient = BuildClient(config)
    /\ cachedQueryBy = ""
    /\ NoHttp
    /\ searches = <<>>

ConfigSet ==
    /\ last = Idle
    /\ nreg < MaxConfigSets
    /\ nreg' = nreg + 1
    /\ \E patch \in Patches :
          LET r == configSet(config, cachedQueryBy, tsClient, patch)
          IN  /\ config' = r.config
              /\ cachedQueryBy' = r.cached
              /\ tsClient' = r.client
              /\ last' = [op |-> "config_set", patch |-> patch, result |-> r.result,
                          before |-> config, cachedBefore |-> cachedQueryBy,
                          clientBefore |-> tsClient]
    /\ UNCHANGED <<rev, tools, registered, httpVars, searches>>

P5Search ==
    /\ last = Idle
    /\ \E b \in P5SearchBackends, decl \in {"raw", "cdn"}, args \in P5Args :
          LET r == typesenseSearch_p5(b, config, tsClient, cachedQueryBy, decl, args)
          IN  /\ cachedQueryBy' = r.cached
              /\ last' = [op |-> "p5search", backend |-> b, decl |-> decl,
                          args |-> args, products |-> r.products,
                          requests |-> r.requests, cachedBefore |-> cachedQueryBy]
    /\ UNCHANGED <<rev, tools, registered, nreg, config, tsClient, httpVars, searches>>

NextConfig == ConfigSet \/ P5Search \/ Done

SpecConfig == InitConfig /\ [][NextConfig]_vars

----------------------------------------------------------------------------
(* qiq_scoring of src/src/mcp.mjs *)

MaxProducts == 2

\* the numbers whose texts the inputs use
IntValue ==
    [v \in {"0", "3", "10", "12", "20", "-5"} |->
        CASE v = "0" -> 0 [] v = "3" -> 3 [] v = "10" -> 10 [] v = "12" -> 12
          [] v = "20" -> 20 [] OTHER -> -5]

\* 5e-324 is the smallest positive double, 1e-323 the next one
Tiny == "5e-324"
Tiny2 == "1e-323"
Subnormal == {Tiny, Tiny2}

\* a score is the quotient n/d; 1/0 is Infinity
Zero == [n |-> 0, d |-> 1]
Infinity == [n |-> 1, d |-> 0]

\* price > 0
Positive(price) ==
    price.t = "number"
    /\ (price.v \in Subnormal \/ (price.v \in DOMAIN IntValue /\ IntValue[price.v] > 0))

\* price > 0 ? 1 / price : 0; the quotients 1/5e-324 and 1/1e-323 overflow
Score(price) ==
    IF Positive(price)
    THEN IF price.v \in Subnormal THEN Infinity ELSE [n |-> 1, d |-> IntValue[price.v]]
    ELSE Zero

\* a > b on scores
Greater(a, b) == a.n * b.d > b.n * a.d

\* { ...p, price, score }
Scored(p) ==
    [t |-> "object", sku |-> p.sku, brand |-> p.brand,
     price |-> NumberOrZero(p.price), score |-> Score(NumberOrZero(p.price))]

\* a step that puts x in front of the entries of equal score
Insert_unstable(sorted, x) ==
    LET k == Cardinality({i \in 1..Len(sorted) : Greater(sorted[i].score, x.score)})
    IN  SubSeq(sorted, 1, k) \o <<x>> \o SubSeq(sorted, k + 1, Len(sorted))

\* one step of the stable sort: x goes behind every entry whose score is not lower
Insert(sorted, x) ==
    LET k == Cardinality({i \in 1..Len(sorted) : ~Greater(x.score, sorted[i].score)})
    IN  SubSeq(sorted, 1, k) \o <<x>> \o SubSeq(sorted, k + 1, Len(sorted))

\* scored.sort((a, b) => (b.score ?? 0) - (a.score ?? 0))
RECURSIVE SortByScore(_)
SortByScore(seq) ==
    IF seq = <<>> THEN <<>>
    ELSE Insert(SortByScore(SubSeq(seq, 1, Len(seq) - 1)), seq[Len(seq)])

\* a scoring that leaves out the products it cannot score
qiqScoring_dropsUnpriced(args) ==
    IF ~args.isArray THEN [threw |-> FALSE, products |-> <<>>]
    ELSE IF \E i \in 1..Len(args.products) : args.products[i].t # "object"
    THEN [threw |-> TRUE, products |-> <<>>]
    ELSE [threw |-> FALSE,
          products |->
             SortByScore(SelectSeq([i \in 1..Len(args.products) |-> Scored(args.products[i])],
                                   LAMBDA q : Positive(q.price)))]

\* the call function of qiq_scoring: [threw, products]
qiqScoring(args) ==
    \* Array.isArray(products) ? products : []
    IF ~args.isArray THEN [threw |-> FALSE, products |-> <<>>]
    \* p.price of a null entry raises a TypeError
    ELSE IF \E i \in 1..Len(args.products) : args.products[i].t # "object"
    THEN [threw |-> TRUE, products |-> <<>>]
    ELSE [threw |-> FALSE,
          products |->
             SortByScore([i \in 1..Len(args.products) |-> Scored(args.products[i])])]

\* the prices an entry can carry; Undefined is an entry without price
Prices ==
    {Undefined, Null, Num("10"), Num("20"), Num("0"), Num("-5"), Num(Tiny), Num(Tiny2),
     Str("20"), Str("abc")}

NullEntry == [t |-> "null", sku |-> "", brand |-> "", price |-> Undefined]

Entries ==
    [t : {"object"}, sku : {"s1", "s2"}, brand : {"Acme"}, price : Prices]
    \cup {NullEntry}

\* the products argument: a list, or a value that is no array
ScoringArgs ==
    {[isArray |-> FALSE, products |-> <<>>]}
    \cup UNION {{[isArray |-> TRUE, products |-> ps] : ps \in [1..n -> Entries]} :
                  n \in 0..MaxProducts}

ScoringResult == [kind |-> "products", names |-> <<>>, fn |-> "qiq_scoring"]

\* Promise.resolve(tool.call(args || {})).then(ok).catch(() => err(-32000, ...))
scoringResponse(id, rejected) ==
    IF rejected THEN err(id, ToolInvocationError, "Tool invocation error", "")
    ELSE ok(id, ScoringResult)

InitScoring ==
    /\ rev = "mcp"
    /\ tools = InitialTools(rev)
    /\ registered = Keys(tools)
    /\ nreg = 0
    /\ last = Idle
    /\ config = NoConfig
    /\ tsClient = NoClient
    /\ cachedQueryBy = ""
    /\ NoHttp
    /\ searches = <<>>

\* one tools/call of qiq_scoring
Scoring ==
    /\ last = Idle
    /\ \E args \in ScoringArgs :
          LET r == qiqScoring(args)
          IN  last' = [op |-> "scoring", args |-> args, threw |-> r.threw,
                       products |-> r.products,
                       out |-> <<scoringResponse(Num("7"), r.threw)>>]
    /\ UNCHANGED <<rev, tools, registered, nreg, config, tsClient, cachedQueryBy, httpVars, searches>>

NextScoring == Scoring \/ Done

SpecScoring == InitScoring /\ [][NextScoring]_vars

----------------------------------------------------------------------------
(* The HTTP servers: src/run.mjs (rev "mcp"), src/unnamed/part_003 (rev    *)
(* "p3", run.mjs with authGuard and POST /mcp/sse) and                     *)
(* src/scripts/mcp-http-server.js (rev "script"). All three dispatch to    *)
(* handleJsonRpc of src/src/mcp.mjs.                                       *)

MaxEvents == 3

\* a body that is no JSON-RPC envelope
Bare(status, result) ==
    [status |-> status, jsonrpc |-> FALSE, id |-> Undefined, hasResult |-> FALSE,
     hasError |-> FALSE, code |-> 0, message |-> "", data |-> "", result |-> result]

\* res.status(401).json({ error: 'Unauthorized' })
Unauthorized == Bare(401, NoResult)

\* Express answers a route that is not defined with 404
NotFound == Bare(404, NoResult)

\* the tools whose result is { products: [...] }
ProductTools == {"typesense_search", "qiq_scoring"}

\* rpcResponse && rpcResponse.result && rpcResponse.result.products
HasProducts(resp) ==
    resp.hasResult /\ resp.result.kind = "tool" /\ resp.result.fn \in ProductTools

\* the body the scripts server sends: the result alone when it has products
Strict(resp) == IF HasProducts(resp) THEN Bare(200, resp.result) ELSE resp

\* the credentials of a request: the Authorization header, ?token= and the
\* X-Access-Token header ("" is absent)
Credentials ==
    [authorization : {"", "Bearer tok", "Bearer bad", "tok"},
     query : {"", "tok"},
     header : {"", "tok"}]

NoCredentials == [authorization |-> "", query |-> "", header |-> ""]

\* hdr.startsWith('Bearer ') ? hdr.slice(7) : undefined
BearerOf(hdr) ==
    CASE hdr = "Bearer tok" -> "tok"
      [] hdr = "Bearer bad" -> "bad"
      [] OTHER -> ""

\* a guard that takes any credential for the token
authGuard_anyCredential(required, cred) ==
    IF required = "" THEN TRUE
    ELSE cred.authorization # "" \/ cred.query # "" \/ cred.header # ""

\* authGuard: TRUE when next() is called
authGuard(required, cred) ==
    IF required = "" THEN TRUE
    ELSE LET bearer == BearerOf(cred.authorization)
             token == IF bearer # "" THEN bearer
                      ELSE IF cred.query # "" THEN cred.query ELSE cred.header
         IN  token = required

\* the guard in front of a route, where the server has one
Admitted(r, required, cred) == r # "p3" \/ authGuard(required, cred)

\* the payloads the HTTP clients send
HttpToolNames == {Str("ping"), Str("typesense_search"), Str("nope")}

HttpPayloads ==
    {NonObject(k) : k \in {"garbage", "undefined"}}
    \cup {Object(Num("7"), m, NoParams) : m \in {Str("initialize"), Str("tools/list")}}
    \cup {Object(Num("7"), Str("tools/call"), [present |-> TRUE, name |-> n]) :
            n \in HttpToolNames}

\* POST /mcp/http of src/run.mjs and src/unnamed/part_003
postMcpHttp_guarded(r, reg, required, cred, payload) ==
    IF BodyParserRejects(payload) THEN Effect(<<BadRequest>>, <<>>, <<>>)
    ELSE IF ~Admitted(r, required, cred) THEN Effect(<<Unauthorized>>, <<>>, <<>>)
    ELSE handleJsonRpc(reg, payload)

\* POST /mcp/http of src/scripts/mcp-http-server.js
postMcpHttp_script(reg, payload) ==
    IF BodyParserRejects(payload) THEN Effect(<<BadRequest>>, <<>>, <<>>)
    ELSE LET e == handleJsonRpc(reg, payload)
         IN  Effect(<<Strict(e.out[1])>>, e.invoked, e.lookups)

\* POST /mcp/http of the running server
postHttp(r, reg, required, cred, payload) ==
    IF r = "script" THEN postMcpHttp_script(reg, payload)
    ELSE postMcpHttp_guarded(r, reg, required, cred, payload)

\* the GET routes that answer with a fixed body
GetRoutes == {"GET /mcp", "GET /mcp/http", "GET /mcp/info", "GET /"}

getRoute(r, reg, required, cred, route) ==
    IF r = "script"
    THEN IF route = "GET /" THEN Effect(<<Bare(200, NoResult)>>, <<>>, <<>>)
         ELSE Effect(<<NotFound>>, <<>>, <<>>)
    ELSE IF route # "GET /" /\ ~Admitted(r, required, cred)
    THEN Effect(<<Unauthorized>>, <<>>, <<>>)
    ELSE CASE route = "GET /mcp" -> Effect(<<Bare(426, NoResult)>>, <<>>, <<>>)
           [] route = "GET /mcp/http" -> Effect(<<Bare(405, NoResult)>>, <<>>, <<>>)
           \* res.json({ ok: true, tools: getTools() })
           [] OTHER -> Effect(<<Bare(200, ToolsResult(getTools(reg)))>>, <<>>, <<>>)

\* one SSE event
NoBody == Bare(0, NoResult)
MessageEvent(body) == [event |-> "message", text |-> "", body |-> body]
PingEvent(text) == [event |-> "ping", text |-> text, body |-> NoBody]

\* what GET /mcp/sse writes before it returns
\* run.mjs, part_003: the initialize result as a message event
\* scripts server: a ping, then the tools/list result as a message event
openingEvents(r, reg) ==
    IF r = "script"
    THEN <<PingEvent("{ok:true}"),
           MessageEvent(handleJsonRpc(reg, Object(Num("now"), Str("tools/list"), NoParams)).out[1])>>
    ELSE <<MessageEvent(handleJsonRpc(reg, Object(Num("0"), Str("initialize"), NoParams)).out[1])>>

\* a broadcast loop whose catch leaves the failing client in the set
broadcast_keepsFailing(clients, strs, failing, body) ==
    [clients |-> clients,
     streams |-> [s \in StreamIds |->
                    IF s \in clients \ failing
                    THEN [strs[s] EXCEPT !.events = Append(@, MessageEvent(body))]
                    ELSE IF s \in failing THEN [strs[s] EXCEPT !.state = "broken"]
                    ELSE strs[s]]]

\* a broadcast loop without the try around the writes: the first write that
\* raises ends the loop, and no client is removed
broadcast_unguarded(clients, strs, failing, body) ==
    [clients |-> clients,
     streams |-> [s \in StreamIds |->
                    IF s \in clients /\ failing = {}
                    THEN [strs[s] EXCEPT !.events = Append(@, MessageEvent(body))]
                    ELSE IF s \in failing THEN [strs[s] EXCEPT !.state = "broken"]
                    ELSE strs[s]]]

\* client.write of one event to every connected client; a write raises on a
\* stream that is broken, and the catch removes that client from the set
broadcast(clients, strs, failing, body) ==
    [clients |-> clients \ failing,
     streams |-> [s \in StreamIds |->
                    IF s \in clients \ failing
                    THEN [strs[s] EXCEPT !.events = Append(@, MessageEvent(body))]
                    ELSE IF s \in failing THEN [strs[s] EXCEPT !.state = "broken"]
                    ELSE strs[s]]]

InitHttp ==
    /\ rev \in {"mcp", "p3", "script"}
    /\ tools = InitialTools("mcp")
    /\ registered = Keys(tools)
    /\ nreg = 0
    /\ last = Idle
    /\ config = NoConfig
    /\ tsClient = NoClient
    /\ cachedQueryBy = ""
    /\ REQUIRED_TOKEN \in (IF rev = "p3" THEN {"", "tok"} ELSE {""})
    /\ sseClients = {}
    /\ streams = NoStreams
    /\ searches = <<>>

backendVars == <<config, tsClient, cachedQueryBy, searches>>

\* POST /mcp/http
PostHttp ==
    /\ last = Idle
    /\ \E payload \in HttpPayloads, cred \in Credentials :
          /\ rev # "p3" => cred = NoCredentials
          /\ last' = [op |-> "post", route |-> "POST /mcp/http", cred |-> cred,
                      req |-> payload, written |-> {},
                      out |-> postHttp(rev, tools, REQUIRED_TOKEN, cred, payload).out,
                      invoked |-> postHttp(rev, tools, REQUIRED_TOKEN, cred, payload).invoked]
    /\ UNCHANGED <<rev, tools, registered, nreg, backendVars, httpVars>>

\* POST /mcp/sse: run.mjs has no such route; part_003 answers like POST
\* /mcp/http; the scripts server also writes the body to every connected client
PostSse ==
    /\ last = Idle
    /\ \A s \in sseClients : Len(streams[s].events) < MaxEvents
    /\ \E payload \in HttpPayloads, cred \in Credentials, failing \in SUBSET sseClients :
          /\ rev # "p3" => cred = NoCredentials
          /\ rev # "script" => failing = {}
          /\ LET e == IF rev = "mcp" THEN Effect(<<NotFound>>, <<>>, <<>>)
                      ELSE postHttp(rev, tools, REQUIRED_TOKEN, cred, payload)
                 sent == rev = "script" /\ ~BodyParserRejects(payload)
                 b == broadcast(sseClients, streams, failing, e.out[1])
             IN  /\ last' = [op |-> "post", route |-> "POST /mcp/sse", cred |-> cred,
                             req |-> payload,
                             written |-> IF sent THEN sseClients \ failing ELSE {},
                             out |-> e.out, invoked |-> e.invoked]
                 /\ sseClients' = IF sent THEN b.clients ELSE sseClients
                 /\ streams' = IF sent THEN b.streams ELSE streams
    /\ UNCHANGED <<rev, tools, registered, nreg, backendVars, REQUIRED_TOKEN>>

\* GET /mcp, GET /mcp/http, GET /mcp/info, GET /
Get ==
    /\ last = Idle
    /\ \E route \in GetRoutes, cred \in Credentials :
          /\ rev # "p3" => cred = NoCredentials
          /\ last' = [op |-> "get", route |-> route, cred |-> cred,
                      out |-> getRoute(rev, tools, REQUIRED_TOKEN, cred, route).out,
                      invoked |-> <<>>]
    /\ UNCHANGED <<rev, tools, registered, nreg, backendVars, httpVars>>

\* GET /mcp/sse: a client opens stream s
OpenStream ==
    /\ last = Idle
    /\ \E s \in StreamIds, cred \in Credentials :
          /\ streams[s].state = "none"
          /\ rev # "p3" => cred = NoCredentials
          /\ IF Admitted(rev, REQUIRED_TOKEN, cred)
             THEN /\ streams' = [streams EXCEPT ![s] =
                                    [state |-> "open", events |-> openingEvents(rev, tools),
                                     \* setInterval(..., 25000)
                                     timer |-> rev # "script"]]
                  /\ sseClients' = IF rev = "script" THEN sseClients \cup {s} ELSE sseClients
                  /\ last' = [op |-> "open", route |-> "GET /mcp/sse", cred |-> cred,
                              stream |-> s, out |-> <<>>, invoked |-> <<>>]
             ELSE /\ UNCHANGED <<streams, sseClients>>
                  /\ last' = [op |-> "open", route |-> "GET /mcp/sse", cred |-> cred,
                              stream |-> s, out |-> <<Unauthorized>>, invoked |-> <<>>]
    /\ UNCHANGED <<rev, tools, registered, nreg, backendVars, REQUIRED_TOKEN>>

\* the interval of stream s fires
Tick ==
    \E s \in StreamIds :
       /\ streams[s].timer
       /\ Len(streams[s].events) < MaxEvents
       /\ streams' = [streams EXCEPT ![s].events = Append(@, PingEvent("keep-alive"))]
       /\ UNCHANGED <<rev, tools, registered, nreg, last, backendVars, REQUIRED_TOKEN,
                      sseClients>>

\* req.on('close'): the client of stream s has gone
CloseStream ==
    \E s \in StreamIds :
       /\ streams[s].state = "open"
       \* clearInterval(interval)
       /\ streams' = [streams EXCEPT ![s].state = "closed", ![s].timer = FALSE]
       \* sseClients.delete(client)
       /\ sseClients' = sseClients \ {s}
       /\ UNCHANGED <<rev, tools, registered, nreg, last, backendVars, REQUIRED_TOKEN>>

NextHttp == PostHttp \/ PostSse \/ Get \/ OpenStream \/ Tick \/ CloseStream \/ Done

SpecHttp == InitHttp /\ [][NextHttp]_vars

----------------------------------------------------------------------------
(* WebSocket connection setup: src/api/mcp.js (rev "ws") and the two       *)
(* servers of src/scripts/http-smoke-test.mjs (rev "smoke1", lines 109-293, *)
(* and rev "smoke2", lines 303-510)                                        *)

MaxOffers == 3

\* the elements of a Sec-WebSocket-Protocol header between its commas
OfferTokens == {"mcp", " mcp", "jsonrpc", "chat", ""}

\* the headers a client can send; no header reads as the empty list
OfferHeaders == UNION {[1..n -> OfferTokens] : n \in 0..MaxOffers}

\* protoHeader.split(',').map((s) => s.trim()).filter(Boolean)
Requested(header) == SelectSeq(TrimAll(header), NonEmpty)

\* negotiateSubprotocol of src/api/mcp.js: "" is undefined
negotiateSubprotocol(header) ==
    IF "mcp" \in Range(Requested(header)) THEN "mcp"
    ELSE IF "jsonrpc" \in Range(Requested(header)) THEN "jsonrpc"
    ELSE ""

\* handleProtocols of the first smoke-test server: "" is false
handleProtocols(protocols) ==
    IF "mcp" \in protocols THEN "mcp"
    ELSE IF "jsonrpc" \in protocols THEN "jsonrpc"
    ELSE ""

\* let selected = '' ... of the upgrade handler of the second smoke-test server
upgradeSelected(header) ==
    IF "mcp" \in Range(Requested(header)) THEN "mcp"
    ELSE IF "jsonrpc" \in Range(Requested(header)) THEN "jsonrpc"
    ELSE ""

\* the subprotocol the server selects for a connection
selectedBy(r, header) ==
    CASE r = "ws" -> negotiateSubprotocol(header)
      [] r = "smoke1" -> handleProtocols(Range(Requested(header)))
      [] OTHER -> upgradeSelected(header)

\* the connection is set up: src/api/mcp.js answers a request without
\* Upgrade: websocket with 426; the smoke-test servers take upgrades of the
\* path /mcp only
accepts(r, req) == req.upgrade /\ (r = "ws" \/ req.onPath)

UpgradeRequests == [upgrade : BOOLEAN, onPath : BOOLEAN, offered : OfferHeaders]

InitWs ==
    /\ rev \in {"ws", "smoke1", "smoke2"}
    /\ tools = <<>>
    /\ registered = {}
    /\ nreg = 0
    /\ last = Idle
    /\ config = NoConfig
    /\ tsClient = NoClient
    /\ cachedQueryBy = ""
    /\ NoHttp
    /\ searches = <<>>

\* one connection attempt
Upgrade ==
    /\ last = Idle
    /\ \E req \in UpgradeRequests :
          last' = [op |-> "upgrade", req |-> req, accepted |-> accepts(rev, req),
                   selected |-> IF accepts(rev, req) THEN selectedBy(rev, req.offered)
                                ELSE ""]
    /\ UNCHANGED <<rev, tools, registered, nreg, backendVars, httpVars>>

NextWs == Upgrade \/ Done

SpecWs == InitWs /\ [][NextWs]_vars

----------------------------------------------------------------------------
(* typesense_search calls of src/unnamed/part_005 in flight while          *)
(* typesense_config_set runs. The call function is async: it runs to its   *)
(* next await, and what it reads after the await (tsClient, TS_COLLECTION, *)
(* cachedQueryBy) is what the module variables hold by then.               *)

MaxSearches == 2

\* the request of a search call that does not reach the backend
NoRequest == [op |-> "none", collection |-> "", client |-> NoClient, epoch |-> 0]

\* a request that always goes to the configuration of module load
issue_initial(op, c, client, epoch) ==
    [op |-> op, collection |-> Configured.collection, client |-> BuildClient(Configured),
     epoch |-> epoch]

\* tsClient.collections(TS_COLLECTION)...: the request goes to the collection
\* and through the client the module variables hold when it is issued; epoch
\* is the number of config_set calls that have returned by then
issue(op, c, client, epoch) ==
    [op |-> op, collection |-> c.collection, client |-> client, epoch |-> epoch]

\* a call that has returned: its products stem from the answer to request r
Returned(call, r, epoch) ==
    [call EXCEPT !.pc = "done", !.source = r, !.endEpoch = epoch]

\* the call up to its first await
startSearch(path, c, client, cached, epoch) ==
    LET call == [path |-> path, pc |-> "start", startEpoch |-> epoch, endEpoch |-> epoch,
                 requests |-> <<>>, source |-> NoRequest]
    IN  \* if (!tsClient || !TS_COLLECTION) return { products: [] }
        IF client.null \/ c.collection = "" THEN Returned(call, NoRequest, epoch)
        ELSE IF path = "id"
        THEN [call EXCEPT !.pc = "retrieve",
                          !.requests = <<issue("retrieve", c, client, epoch)>>]
        ELSE IF cached = "" /\ c.envQueryBy = ""
        THEN [call EXCEPT !.pc = "schema",
                          !.requests = <<issue("schema", c, client, epoch)>>]
        ELSE [call EXCEPT !.pc = "search",
                          !.requests = <<issue("search", c, client, epoch)>>]

\* the call from the answer to its pending request to its next await or its
\* return; answered is FALSE when the backend refused the request
resumeSearch(call, answered, c, client, epoch) ==
    LET pending == call.requests[Len(call.requests)]
        again == issue("search", c, client, epoch)
    IN  CASE call.pc = "schema" ->
                \* tsClient is null by now: the TypeError goes to the outer catch
                IF client.null THEN Returned(call, NoRequest, epoch)
                ELSE [call EXCEPT !.pc = "search", !.requests = Append(@, again)]
          [] call.pc = "retrieve" ->
                IF answered THEN Returned(call, pending, epoch)
                \* the fallback search; its TypeError is swallowed at line 578
                ELSE IF client.null THEN Returned(call, NoRequest, epoch)
                ELSE [call EXCEPT !.pc = "search", !.requests = Append(@, again)]
          [] OTHER ->
                IF answered THEN Returned(call, pending, epoch)
                ELSE Returned(call, NoRequest, epoch)

\* the string fields in the schema of a collection of the backend
StringFields(collection) == IF collection = "new" THEN "title" ELSE DiscoveredQueryBy

\* cachedQueryBy after the answer to the schema request (lines 594, 596): the
\* answer describes the collection the request went to
resumeCached(call, answered, cached) ==
    IF call.pc = "schema"
    THEN IF answered THEN StringFields(call.requests[Len(call.requests)].collection)
         ELSE DefaultQueryBy
    ELSE cached

\* the patches of the reconfiguration
OverlapPatches ==
    {patch \in Patches :
        /\ patch.query_by_weights = ""
        /\ patch.apiKey = "" /\ patch.protocol = "" /\ patch.port = Undefined
        /\ patch.collection \in {"", "new"}
        /\ Supplied_n(patch) = 1}

InitOverlap ==
    /\ rev = "p5"
    /\ tools = InitialTools(rev)
    /\ registered = Keys(tools)
    /\ nreg = 0
    /\ last = Idle
    /\ config = Configured
    /\ tsClient = BuildClient(config)
    /\ cachedQueryBy = ""
    /\ NoHttp
    /\ searches = <<>>

\* a tools/call of typesense_search arrives
StartSearch ==
    /\ Len(searches) < MaxSearches
    /\ \E path \in {"keyword", "id"} :
          searches' = Append(searches, startSearch(path, config, tsClient, cachedQueryBy, nreg))
    /\ UNCHANGED <<rev, tools, registered, nreg, last, config, tsClient, cachedQueryBy, httpVars>>

\* the backend answers the pending request of call k
ResumeSearch ==
    \E k \in 1..Len(searches), answered \in BOOLEAN :
       /\ searches[k].pc \in {"schema", "retrieve", "search"}
       /\ searches' = [searches EXCEPT
                         ![k] = resumeSearch(searches[k], answered, config, tsClient, nreg)]
       /\ cachedQueryBy' = resumeCached(searches[k], answered, cachedQueryBy)
       /\ UNCHANGED <<rev, tools, registered, nreg, last, config, tsClient, httpVars>>

\* a tools/call of typesense_config_set: the call function has no await
Reconfigure ==
    /\ nreg < MaxConfigSets
    /\ nreg' = nreg + 1
    /\ \E patch \in OverlapPatches :
          LET r == configSet(config, cachedQueryBy, tsClient, patch)
          IN  /\ config' = r.config
              /\ cachedQueryBy' = r.cached
              /\ tsClient' = r.client
    /\ UNCHANGED <<rev, tools, registered, last, httpVars, searches>>

NextOverlap == StartSearch \/ ResumeSearch \/ Reconfigure

SpecOverlap == InitOverlap /\ [][NextOverlap]_vars

----------------------------------------------------------------------------
(* Properties of the dispatchers *)

IsRequest == last.op = "request"

\* the request reached a dispatcher (the body parser did not refuse it)
Dispatched == IsRequest /\ ~(rev = "mcp" /\ BodyParserRejects(last.req))

\* the request is a JSON object with the given method
HasMethod(m) == Dispatched /\ last.req.json = "object" /\ last.req.method = m

\* the tool names a tools/call can resolve in the running program
RegisteredNames == IF rev = "ws" THEN {WsToolNames[i] : i \in 1..Len(WsToolNames)}
                   ELSE Keys(tools)

\* exactly one message went out and it is a JSON-RPC error with this code
AnsweredError(code) ==
    /\ Len(last.out) = 1
    /\ last.out[1].jsonrpc
    /\ last.out[1].hasError
    /\ ~last.out[1].hasResult
    /\ last.out[1].code = code

\* C1 (as claimed): a tools/call whose params.name is a non-empty string that
\* is not a registered tool name is answered with error -32601 and invokes no
\* tool function.
C1_UnknownToolIsMethodNotFound ==
    (/\ HasMethod(Str("tools/call"))
     /\ last.req.params.name.t = "string"
     /\ last.req.params.name.v # ""
     /\ last.req.params.name.v \notin RegisteredNames)
    => (AnsweredError(MethodNotFound) /\ last.invoked = <<>>)

\* C1, the part that holds: with the Map registry of handleJsonRpc the claim
\* is true in every registry state.
C1_HoldsForMapRegistry == rev \in {"mcp", "core"} => C1_UnknownToolIsMethodNotFound

\* C2 (as claimed): tools/list returns exactly one entry per successfully
\* registered tool name: none missing, none twice, none that was never
\* registered.
C2_ListIsRegisteredSet ==
    (HasMethod(Str("tools/list")) /\ rev \in {"mcp", "core"})
    => /\ Len(last.out) = 1
       /\ last.out[1].result.kind = "tools"
       /\ NoDuplicates(last.out[1].result.names)
       /\ Range(last.out[1].result.names) = registered

C4_IdEchoed ==
    (Dispatched /\ last.req.json = "object" /\ last.req.id # Undefined)
    => \A i \in 1..Len(last.out) : last.out[i].id = last.req.id

\* C5 (as claimed): a tool function that raises or rejects is answered with
\* error -32000 whose message is the fixed text, never with a result.
C5_ToolFailureIsInvocationError ==
    (/\ Dispatched
     /\ Len(last.invoked) = 1
     /\ Behaviour(last.invoked[1]) # "return")
    => /\ AnsweredError(ToolInvocationError)
       /\ last.out[1].message = "Tool invocation error"
       /\ last.out[1].message # FailureText(last.invoked[1])

\* C6 (as claimed): a tools/call whose params.name is missing, empty or not a
\* string is answered with error -32602 and invokes no tool.
C6_BadNameIsInvalidParams ==
    (/\ HasMethod(Str("tools/call"))
     /\ (last.req.params.name.t # "string" \/ last.req.params.name.v = ""))
    => (AnsweredError(InvalidParams) /\ last.invoked = <<>>)

\* C7 (as claimed): a parsed request whose method is missing or not a string
\* is answered with error -32600.
C7_BadMethodIsInvalidRequest ==
    (/\ Dispatched
     /\ last.req.json = "object"
     /\ last.req.method.t # "string")
    => AnsweredError(InvalidRequest)

\* C8 (as claimed): a payload that is no JSON is answered with a JSON-RPC
\* error -32700 whose id is null.
C8_UnparseableIsParseError ==
    (IsRequest /\ last.req.json = "garbage")
    => (AnsweredError(ParseError) /\ last.out[1].id = Null)

TheThreeMethods == {Str("initialize"), Str("tools/list"), Str("tools/call")}
WsVariants == {Str("toolslist"), Str("toolscall")}

\* C9 (as claimed): a request whose method is a (non-empty) string other than
\* initialize, tools/list and tools/call is answered with error -32601, with
\* no registry lookup and no tool invocation.
C9_OnlyThreeMethods ==
    (/\ Dispatched
     /\ last.req.json = "object"
     /\ last.req.method.t = "string"
     /\ last.req.method.v # ""
     /\ last.req.method \notin TheThreeMethods)
    => /\ AnsweredError(MethodNotFound)
       /\ last.lookups = <<>>
       /\ last.invoked = <<>>

\* C9 (amended): the same, except that the WebSocket handler takes toolslist
\* and toolscall as tools/list and tools/call.
C9_OnlyThreeMethodsAndWsVariants ==
    (/\ Dispatched
     /\ last.req.json = "object"
     /\ last.req.method.t = "string"
     /\ last.req.method.v # ""
     /\ last.req.method \notin TheThreeMethods
     /\ ~(rev = "ws" /\ last.req.method \in WsVariants))
    => /\ AnsweredError(MethodNotFound)
       /\ last.lookups = <<>>
       /\ last.invoked = <<>>

\* C9 witness: handleJsonRpc has refused toolscall although the name it
\* carries is a registered tool.
C9_Witness ==
    /\ rev = "mcp"
    /\ HasMethod(Str("toolscall"))
    /\ last.req.params.name = Str("ping")
    /\ AnsweredError(MethodNotFound)

----------------------------------------------------------------------------
(* Properties of typesense_search *)

IsSearch == last.op = "search"

\* the identifiers of a call: objectIDs then objectID, as the caller meant
\* them (surrounding blanks and letter case do not distinguish identifiers)
Supplied(args) ==
    SelectSeq(args.objectIDs \o (IF args.objectID # "" THEN <<args.objectID>> ELSE <<>>),
              LAMBDA x : Trim(x) # "")
DistinctIds(args) == Dedup(LowerAll(TrimAll(Supplied(args))))

\* C10 (as claimed): with a backend configured, a call with identifiers
\* returns as many products as there are case-insensitively distinct
\* identifiers, whatever the backend answers.
C10_OnePerDistinctIdentifier ==
    (IsSearch /\ last.args.client /\ Len(DistinctIds(last.args)) > 0)
    => Len(last.products) = Len(DistinctIds(last.args))

\* C10, the part that holds: under the declaration of lines 212-218 the
\* cardinality is that of the distinct identifiers.
C10_HoldsForSetDeclaration ==
    (IsSearch /\ last.decl = "set") => C10_OnePerDistinctIdentifier

\* the call took the identifier path under the declaration of lines 212-218
IdentifierPath ==
    /\ IsSearch
    /\ last.args.client
    /\ last.decl = "set"
    /\ Len(DistinctIds(last.args)) > 0

\* C11 (as claimed): on the identifier path the objectID of the i-th product
\* is the i-th deduplicated input identifier up to letter case, for records
\* resolved from a backend hit and for placeholders alike.
C11_ObjectIdIsTheIdentifier ==
    IdentifierPath
    => /\ Len(last.products) = Len(DistinctIds(last.args))
       /\ \A i \in 1..Len(last.products) :
             ToLowerCase(last.products[i].objectID) = DistinctIds(last.args)[i]

\* C11, the part that holds: when the backend resolves nothing every record
\* is a placeholder and carries its identifier.
C11_HoldsForPlaceholders ==
    (IdentifierPath /\ last.backend.docs = {}) => C11_ObjectIdIsTheIdentifier

----------------------------------------------------------------------------
(* Properties of typesense_search of src/src/mcp.mjs *)

IsMcpSearch == last.op = "mcpsearch"

\* C12 (as claimed): whatever the arguments and whatever the backend does, a
\* tools/call of typesense_search ends in a JSON-RPC result (a products
\* list), never in a protocol error, and no exception leaves the call function.
C12_SearchNeverFails ==
    IsMcpSearch
    => /\ ~last.threw
       /\ last.out[1].hasResult
       /\ ~last.out[1].hasError

\* C12, the part that holds: with arguments that convert to strings, no
\* backend behaviour makes the call fail.
C12_HoldsForPrintableArguments ==
    (/\ IsMcpSearch
     /\ last.args.category # Unprintable
     /\ last.args.keywords # Unprintable)
    => C12_SearchNeverFails

\* C13 (as claimed): with no backend configured (no client handle) the search
\* returns an empty products list (there being no identifiers to hold places
\* for), issues no backend request and does not raise; it returns no invented
\* products.
C13_UnconfiguredIsEmpty ==
    (IsMcpSearch /\ tsClient.null)
    => /\ ~last.threw
       /\ last.requests = <<>>
       /\ last.products = <<>>

\* C13, the part that holds: typesense_search of src/unnamed/part_006 returns
\* the empty list when it has no client.
C13_HoldsForToolCore ==
    (IsSearch /\ ~last.args.client) => last.products = <<>>

----------------------------------------------------------------------------
(* Properties of src/unnamed/part_005 *)

IsP5Search == last.op = "p5search"
IsConfigSet == last.op = "config_set"

CanonicalFields ==
    {"objectID", "name", "brand", "item_type", "category", "price", "list_price",
     "availability", "image", "spec_sheet", "url"}
NumericFields == {"price", "list_price", "availability"}

\* a record with the eleven canonical fields, the numeric ones numbers
WellFormedProduct(x) ==
    /\ DOMAIN x = CanonicalFields
    /\ \A f \in NumericFields : x[f].t = "number"

\* C14 (as claimed): every product typesense_search returns has the eleven
\* canonical fields, none of them null, the numeric ones holding numbers.
C14_ProductsAreCanonical ==
    IsP5Search => \A i \in 1..Len(last.products) : WellFormedProduct(last.products[i])

\* C14, the part that holds: the records mapRecord of src/unnamed/part_006
\* builds, for hits and for placeholders.
C14_HoldsForMapRecord ==
    IsSearch => \A i \in 1..Len(last.products) : WellFormedProduct(last.products[i])

\* the collection names the module can be loaded with
InitialCollections == {NoConfig.collection, Configured.collection}

\* C15: once typesense_config_set has set a new collection name, a search that
\* starts afterwards sends every backend request (introspection, document
\* retrieval, queries) to the new collection and none to the previous one.
C15_SearchTargetsNewCollection ==
    (IsP5Search /\ config.collection \notin InitialCollections)
    => \A i \in 1..Len(last.requests) : last.requests[i].collection = config.collection

\* C15 witness: after a reconfiguration to collection "new" a search has
\* introspected the schema and queried.
C15_Witness ==
    /\ IsP5Search
    /\ config.collection = "new"
    /\ \E i, j \in 1..Len(last.requests) :
          /\ last.requests[i].op = "retrieve"
          /\ last.requests[j].op = "search"

\* the configuration fields a patch addresses by a text, and the patch field
\* that addresses each
TextFields == {"host", "protocol", "apiKey", "collection"}

PatchKeys == {patch.apiKey : patch \in AllPatches} \ {""}

\* the result the same call gives when the patch carries the key k instead
ResultWithKey(k) ==
    configSet(last.before, last.cachedBefore, last.clientBefore,
              [last.patch EXCEPT !.apiKey = k]).result

\* no text of the result is the key
KeyNotInResult ==
    \A f \in {"host", "protocol", "collection", "query_by", "query_by_weights"} :
       last.result[f] # config.apiKey

\* C17 (as claimed): the result shows the key only through its length: the
\* same call with another key of equal length gives the identical result, and
\* no field of the result holds the key.
C17_KeyShownOnlyByLength ==
    (IsConfigSet /\ last.patch.apiKey # "")
    => /\ \A k \in PatchKeys :
             KeyLength(k) = KeyLength(last.patch.apiKey) => ResultWithKey(k) = last.result
       /\ KeyNotInResult

\* C17 (amended): the length shown is that of the sanitized key: the same
\* call with another key whose sanitized form has equal length gives the
\* identical result, and no field of the result holds the key.
C17_KeyShownOnlyBySanitizedLength ==
    (IsConfigSet /\ last.patch.apiKey # "")
    => /\ \A k \in PatchKeys :
             KeyLength(Sanitize(k)) = KeyLength(Sanitize(last.patch.apiKey))
             => ResultWithKey(k) = last.result
       /\ KeyNotInResult

\* C17 witness: a call carrying key3 has answered with length 4, as the call
\* carrying abcd would.
C17_Witness ==
    /\ IsConfigSet
    /\ last.patch.apiKey = "key3"
    /\ last.result.apiKeyLength = 4
    /\ ResultWithKey("abcd") = last.result

----------------------------------------------------------------------------
(* Properties of the registry *)

IsRegister == last.op = "register"

\* a successful registerTool under a name the registry already held
ReRegistered == IsRegister /\ ~last.threw /\ last.name.v \in Keys(last.before)

\* the positions of the registry that tools/call resolves for a name
BoundTo(reg, n) == {i \in 1..Len(reg) : reg[i].key = n}

\* the positions of the registry that tools/list shows under a name
ListedAs(reg, n) == {i \in 1..Len(reg) : reg[i].name = n}

\* the tool functions a tools/call of the name invokes
InvokedFor(reg, n) == toolsCall(reg, Num("7"), Str(n)).invoked

\* C18 (as claimed): names are unique in the registry at all times; after a
\* registration under a known name the registry holds exactly one descriptor
\* for that name, tools/call of the name invokes only the new function, and
\* no registered name is ever absent or bound to two descriptors.
C18_NamesAreUnique ==
    rev \in {"mcp", "core"}
    => /\ \A n \in registered :
             /\ Cardinality(BoundTo(tools, n)) = 1
             /\ Cardinality(ListedAs(tools, n)) = 1
       /\ NoDuplicates(getTools(tools))
       /\ ReRegistered
          => /\ Len(tools) = Len(last.before)
             /\ InvokedFor(tools, last.name.v) = <<last.def.call>>

\* C18, the part that holds: the keys that tools/call resolves are unique, a
\* registration under a known key replaces its entry in place, and tools/call
\* invokes the function of the registry's one entry for the name.
C18_HoldsForToolsCall ==
    rev \in {"mcp", "core"}
    => /\ \A n \in registered : Cardinality(BoundTo(tools, n)) = 1
       /\ ReRegistered
          => /\ Len(tools) = Len(last.before)
             /\ InvokedFor(tools, last.name.v) = <<last.def.call>>
             /\ \A n \in Keys(last.before) \ {last.name.v} :
                   MapGet(tools, n) = MapGet(last.before, n)
       /\ (HasMethod(Str("tools/call")) /\ last.req.params.name.t = "string"
           /\ last.req.params.name.v \in registered)
          => last.invoked = <<MapGet(tools, last.req.params.name.v).tool.call>>

\* a name registered a second time with another function has been replaced
C18_Reached ==
    /\ ReRegistered
    /\ last.name = Str("a")
    /\ MapGet(last.before, "a").tool.call = "fRet"
    /\ last.def.call = "fRej"

\* the name is empty or no string
BadName(name) == name.t # "string" \/ name.v = ""

\* the descriptor is missing or has no call function
BadDef(def) == def.kind # "object" \/ def.call = "none"

\* C19: registerTool with an empty or non-string name, or with a descriptor
\* without a call function, fails with an error and leaves the registry as it
\* was: no entry added, replaced or removed.
C19_RejectedRegistrationChangesNothing ==
    (IsRegister /\ (BadName(last.name) \/ BadDef(last.def)))
    => /\ last.threw
       /\ tools = last.before

\* C19 witness: a registration under the known name "a" with a descriptor
\* without call has failed.
C19_Witness ==
    /\ IsRegister
    /\ last.threw
    /\ last.name = Str("a")
    /\ "a" \in Keys(last.before)
    /\ last.def.kind = "object"
    /\ last.def.call = "none"
    /\ tools = last.before

----------------------------------------------------------------------------
(* Properties of qiq_scoring *)

IsScoring == last.op = "scoring"

\* the argument is a list of product objects
IsProductList(args) ==
    args.isArray /\ \A i \in 1..Len(args.products) : args.products[i].t = "object"

\* the one-to-one assignments of n output places to n input places
Bijections(n) == {f \in [1..n -> 1..n] : \A i, j \in 1..n : f[i] = f[j] => i = j}

\* q is p but for price and score
SameBut(q, p) ==
    /\ DOMAIN q = DOMAIN p \cup {"score"}
    /\ \A f \in DOMAIN p \ {"price", "score"} : q[f] = p[f]
    /\ q.price.t = "number"

Whole(price) == price.t = "number" /\ price.v \in DOMAIN IntValue

\* the score is a finite number
Finite(score) == score.d # 0

\* score * price = 1
IsReciprocal(score, price) == Finite(score) /\ score.n * IntValue[price.v] = score.d

\* C21 (as claimed): the score of every product is 1/price when the coerced
\* price is greater than 0 and exactly 0 otherwise; it is never infinite and
\* never not-a-number.
C21_ScoreIsReciprocalOrZero ==
    (IsScoring /\ IsProductList(last.args))
    => \A i \in 1..Len(last.products) :
          LET q == last.products[i]
          IN  /\ Finite(q.score)
              /\ IF Whole(q.price) /\ IntValue[q.price.v] > 0
                 THEN IsReciprocal(q.score, q.price)
                 ELSE q.score = Zero

\* C21, the part that holds: for a price that is a whole number, and for a
\* missing or non-numeric price, the score is 1/price when the coerced price
\* is greater than 0 and exactly 0 otherwise.
C21_HoldsForWholePrices ==
    (IsScoring /\ IsProductList(last.args))
    => \A i \in 1..Len(last.products) :
          LET q == last.products[i]
          IN  Whole(q.price)
              => /\ Finite(q.score)
                 /\ IF IntValue[q.price.v] > 0
                    THEN IsReciprocal(q.score, q.price)
                    ELSE q.score = Zero

\* the numbers of the inputs in ascending order
PriceOrder == <<"-5", "0", Tiny, Tiny2, "3", "10", "12", "20">>
PlaceOf(v) == CHOOSE k \in 1..Len(PriceOrder) : PriceOrder[k] = v

\* 0 < a < b on the prices of output entries
LowerPositive(a, b) == PlaceOf("0") < PlaceOf(a.v) /\ PlaceOf(a.v) < PlaceOf(b.v)

\* the output entry at place i stems from the input entry at place f[i]
StemsFrom(f) ==
    \A i \in 1..Len(last.products) : last.products[i] = Scored(last.args.products[f[i]])

\* entries are in descending order of score and entries of equal score in
\* the order of the input
StablyDescending(f) ==
    \A i, j \in 1..Len(last.products) :
       i < j => /\ ~Greater(last.products[j].score, last.products[i].score)
                /\ last.products[i].score = last.products[j].score => f[i] < f[j]

----------------------------------------------------------------------------
(* Properties of the HTTP servers *)

\* a POST whose body the JSON parser accepted
IsPost(route) == last.op = "post" /\ last.route = route /\ ~BodyParserRejects(last.req)

\* the body is a JSON-RPC envelope with exactly one of result and error
IsEnvelope(body) == body.jsonrpc /\ body.hasResult # body.hasError

\* C23 (as claimed): every POST to the HTTP JSON-RPC path is answered with
\* exactly one body, a JSON-RPC envelope, for every method and every tool,
\* also when the tool's result holds a products list.
C23_PostAnsweredWithEnvelope ==
    (IsPost("POST /mcp/http") /\ rev \in {"mcp", "script"})
    => /\ Len(last.out) = 1
       /\ IsEnvelope(last.out[1])

\* C23, the part that holds: src/run.mjs answers every POST with one envelope,
\* and the scripts server does so for every result without a products list.
C23_HoldsWithoutProducts ==
    (IsPost("POST /mcp/http") /\ rev \in {"mcp", "script"})
    => /\ Len(last.out) = 1
       /\ (rev = "mcp" \/ last.req.params.name # Str("typesense_search"))
          => IsEnvelope(last.out[1])

\* the request passed the guard of the route
PassedGuard == Admitted(rev, REQUIRED_TOKEN, last.cred)

\* the body of the answer is among the message events of stream s
Delivered(s) ==
    \E i \in 1..Len(streams[s].events) : streams[s].events[i] = MessageEvent(last.out[1])

\* C24 (as claimed): a request POSTed to the SSE companion endpoint is
\* dispatched once; its one result is the POST's own response and is written
\* as a message event to every open stream of the server; the caller gets its
\* response whether or not a stream is open and whether or not a write fails.
C24_PostSseAnswersAndBroadcasts ==
    (IsPost("POST /mcp/sse") /\ rev \in {"p3", "script"} /\ PassedGuard)
    => /\ Len(last.out) = 1
       /\ Len(last.invoked) <= 1
       /\ \A s \in StreamIds : streams[s].state = "open" => Delivered(s)

\* C24, the part that holds: both servers dispatch once and answer the
\* caller, and the scripts server writes the answer to every open stream.
C24_HoldsForScriptsServer ==
    (IsPost("POST /mcp/sse") /\ rev \in {"p3", "script"} /\ PassedGuard)
    => /\ Len(last.out) = 1
       /\ Len(last.invoked) <= 1
       /\ rev = "script" => \A s \in StreamIds : streams[s].state = "open" => Delivered(s)

\* the scripts server has answered a POST while one stream was open and the
\* write to another failed
C24_Reached ==
    /\ IsPost("POST /mcp/sse") /\ rev = "script"
    /\ \E s, t \in StreamIds :
          /\ streams[s].state = "open" /\ Delivered(s)
          /\ streams[t].state = "broken"
    /\ Len(last.out) = 1

\* the initialize result, as GET /mcp/sse asks for it
InitializeMessage == MessageEvent(ok(Num("0"), InitializeResult))

\* the events of stream s: first the initialize message, then keep-alive pings
InitializeThenPings(s) ==
    /\ streams[s].events # <<>>
    /\ streams[s].events[1] = InitializeMessage
    /\ \A i \in 2..Len(streams[s].events) :
          streams[s].events[i].event = "ping" => streams[s].events[i] = PingEvent("keep-alive")

\* C25 (as claimed): on every SSE stream the first event is a message event
\* with the initialize result, the keep-alive events after it are pings of the
\* stream's own timer, and after the client has gone the timer is released.
C25_InitializeFirstThenPings ==
    rev \in {"mcp", "script"}
    => \A s \in StreamIds :
          /\ streams[s].state # "none" => InitializeThenPings(s)
          /\ streams[s].state = "open" => streams[s].timer
          /\ streams[s].state = "closed" => ~streams[s].timer

\* C25, the part that holds: src/run.mjs opens every stream with the
\* initialize message, keeps it alive with pings of its timer and releases
\* the timer when the client goes.
C25_HoldsForRunServer ==
    rev \in {"mcp", "p3"}
    => \A s \in StreamIds :
          /\ streams[s].state # "none" => InitializeThenPings(s)
          /\ streams[s].state = "open" => streams[s].timer
          /\ streams[s].state = "closed" => ~streams[s].timer

\* C25, the part that holds on every server: nothing is written to a stream
\* whose client has gone.
C25_NothingAfterDisconnect ==
    [][\A s \in StreamIds : streams[s].state = "closed" => streams'[s] = streams[s]]_vars

\* a stream of src/run.mjs with a ping after its initialize message has been closed
C25_Reached ==
    /\ rev = "mcp"
    /\ \E s \in StreamIds :
          /\ streams[s].state = "closed"
          /\ streams[s].events = <<InitializeMessage, PingEvent("keep-alive")>>

----------------------------------------------------------------------------
(* Properties of the WebSocket connection setup *)

\* a WebSocket upgrade on the server's path
IsUpgrade == last.op = "upgrade" /\ last.req.upgrade /\ last.req.onPath

\* the client offers the subprotocol p
Offers(p) == \E i \in 1..Len(last.req.offered) : Trim(last.req.offered[i]) = p

\* C26 (as claimed): the server selects mcp when the client offers it,
\* jsonrpc when the client offers jsonrpc and not mcp, and mcp when the
\* client offers neither or nothing; the connection is never rejected and
\* never without a selected subprotocol.
C26_SubprotocolSelected ==
    IsUpgrade
    => /\ last.accepted
       /\ last.selected = IF Offers("mcp") THEN "mcp"
                          ELSE IF Offers("jsonrpc") THEN "jsonrpc" ELSE "mcp"
       /\ last.selected # ""

\* C26, the part that holds: mcp is selected whenever it is offered, jsonrpc
\* when it is offered without mcp, and no offered list makes the server
\* reject the connection.
C26_HoldsWhenOffered ==
    IsUpgrade
    => /\ last.accepted
       /\ Offers("mcp") => last.selected = "mcp"
       /\ (Offers("jsonrpc") /\ ~Offers("mcp")) => last.selected = "jsonrpc"

\* jsonrpc was listed before mcp and mcp was selected
C26_Reached ==
    /\ IsUpgrade
    /\ last.req.offered = <<"jsonrpc", " mcp">>
    /\ last.selected = "mcp"

\* a request to one of the guarded endpoints of src/unnamed/part_003
IsMcpRequest == rev = "p3" /\ last.op \in {"post", "get", "open"} /\ last.route # "GET /"

\* the request carries the configured token as Bearer, as ?token= or as
\* X-Access-Token
Presents(cred) ==
    REQUIRED_TOKEN \in {BearerOf(cred.authorization), cred.query, cred.header}

\* the credential the guard reads: Bearer before ?token= before X-Access-Token
FirstCredential(cred) ==
    IF BearerOf(cred.authorization) # "" THEN BearerOf(cred.authorization)
    ELSE IF cred.query # "" THEN cred.query ELSE cred.header

\* the request reached neither the dispatcher nor the tool list nor a stream
KeptOut ==
    /\ last.invoked = <<>>
    /\ Len(last.out) = 1
    /\ last.out[1].result = NoResult
    /\ ~last.out[1].jsonrpc
    /\ last.op = "open" => streams[last.stream].state = "none"

\* the body was refused by the JSON parser in front of the routes
RefusedByParser == last.op = "post" /\ BodyParserRejects(last.req)

----------------------------------------------------------------------------
(* Properties of the backend client handle and the cached field list *)

\* the handle is none, or the one built from the current host, protocol,
\* port and key
BuiltFromConfiguration == tsClient = BuildClient(config)

\* C28 (as claimed): in every reachable state the backend client handle was
\* built in one step from the complete current configuration:
\* typesense_config_set replaces the handle by a freshly built one (or none),
\* and the new configuration is never seen together with the old handle.
C28_HandleBuiltFromConfiguration == rev = "p5" => BuiltFromConfiguration

\* C28, the part that holds: after a typesense_config_set that answered
\* applied: true the handle is the one built from the configuration the call
\* left (or none).
C28_HoldsWhenApplied == (IsConfigSet /\ last.result.applied) => BuiltFromConfiguration

\* a config_set has failed behind its assignment of the host
C28_Reached ==
    /\ IsConfigSet
    /\ ~last.result.applied
    /\ config.host = "ts2"
    /\ tsClient.host = "ts1"

\* the call changed a configuration field or carried a query-field list
Reconfigured ==
    /\ IsConfigSet
    /\ \/ \E f \in {"host", "protocol", "port", "apiKey", "collection"} :
             config[f] # last.before[f]
       \/ last.patch.query_by # ""

\* C29 (as claimed): after a typesense_config_set that changes a
\* configuration field or supplies a query-field list, the cached list no
\* longer holds the value derived before the call: it is cleared, or it is
\* the list supplied in the call.
C29_CacheInvalidated ==
    Reconfigured
    => \/ cachedQueryBy = ""
       \/ (last.patch.query_by # "" /\ cachedQueryBy = Sanitize(last.patch.query_by))

\* C29, the part that holds: a supplied query-field list replaces the cached
\* list; without one the call leaves the cached list as it was.
C29_HoldsForSuppliedList ==
    IsConfigSet
    => cachedQueryBy = IF last.patch.query_by # "" THEN Sanitize(last.patch.query_by)
                       ELSE last.cachedBefore

\* a search has derived the list from the schema of one collection, and a
\* config_set to another collection has left the list in the cache
C29_Reached ==
    /\ IsConfigSet
    /\ last.before.collection = "products"
    /\ config.collection = "new"
    /\ last.cachedBefore \notin {"", "sku"}
    /\ cachedQueryBy = last.cachedBefore

----------------------------------------------------------------------------
(* Properties of searches in flight during a reconfiguration *)

\* call k has returned products of a request issued before a reconfiguration
\* that returned while the call was in flight
ReturnedStale(k) ==
    /\ searches[k].pc = "done"
    /\ searches[k].source # NoRequest
    /\ searches[k].source.epoch < searches[k].endEpoch

\* call k started after the last reconfiguration had returned
StartedAfter(k) == searches[k].startEpoch = nreg

\* every request of call k went to the current collection through the handle
\* built from the current configuration
UsesCurrentConfiguration(k) ==
    \A i \in 1..Len(searches[k].requests) :
       /\ searches[k].requests[i].collection = config.collection
       /\ searches[k].requests[i].client = BuildClient(config)

----------------------------------------------------------------------------
(* Properties of the cached query-field list *)

\* every search call made so far has returned
AllReturned == \A k \in 1..Len(searches) : searches[k].pc = "done"

\* the collection is no longer the one of module load
CollectionChanged == nreg >= 1 /\ config.collection # Configured.collection

\* the cached list is the one derived from the schema of the collection of
\* module load
CachedFromFirstCollection == cachedQueryBy = StringFields(Configured.collection)

\* C31: once a typesense_config_set has completed and every search in flight
\* at that moment has finished, the cached query-field list is not a list
\* derived from the schema of the collection before the reconfiguration.
C31_NoStaleFieldList ==
    (CollectionChanged /\ AllReturned) => ~CachedFromFirstCollection

\* C31 reached: a search asked for the schema of the first collection, the
\* reconfiguration to another collection returned, and the search then
\* stored the fields of the first collection.
C31_Reached ==
    /\ CollectionChanged /\ AllReturned /\ CachedFromFirstCollection
    /\ \E k \in 1..Len(searches) :
          /\ Len(searches[k].requests) = 2
          /\ searches[k].requests[1].op = "schema"
          /\ searches[k].requests[1].collection = Configured.collection
          /\ searches[k].requests[2].collection = config.collection

\* the search calls that have asked the backend for the schema
Introspected ==
    {k \in 1..Len(searches) :
        /\ Len(searches[k].requests) >= 1
        /\ searches[k].requests[1].op = "schema"}

\* C32: over any interleaving of typesense_search calls with no
\* reconfiguration in between, the schema of the collection is requested at
\* most once; every other call reuses the stored list.
C32_IntrospectedAtMostOnce ==
    nreg = 0 => Cardinality(Introspected) <= 1

\* C32 (part that holds): a call that starts when the list is stored asks
\* for no schema, so calls made one after the other introspect once.
C32_HoldsForStoredList ==
    [][(Len(searches') > Len(searches) /\ cachedQueryBy # "")
       => Len(searches') \notin Introspected']_vars

\* C32 reached: two calls without reconfiguration have both asked for the
\* schema and both are waiting for the answer.
C32_Reached ==
    /\ nreg = 0
    /\ Cardinality(Introspected) = 2
    /\ \A k \in Introspected : searches[k].pc = "schema"

\* the search just made resolved the query-field list: the backend is
\* configured and no list was stored
Resolved ==
    /\ IsMcpSearch
    /\ ~tsClient.null /\ config.collection # ""
    /\ last.cachedBefore = ""

\* the schema requests of the search just made
SchemaRequests ==
    {i \in 1..Len(last.requests) : last.requests[i].op = "retrieve"}

\* the list is resolved as specified
ResolvedAsSpecified ==
    /\ config.envQueryBy # ""
       => cachedQueryBy = config.envQueryBy /\ SchemaRequests = {}
    /\ config.envQueryBy = ""
       => /\ Cardinality(SchemaRequests) = 1
          /\ last.backend.schema = "ok" => cachedQueryBy = DiscoveredQueryBy
          /\ last.backend.schema = "fail" => cachedQueryBy = DefaultQueryBy
    /\ cachedQueryBy # ""

\* C33: when the query-field list is resolved, a supplied list is taken
\* verbatim without a schema request; otherwise one schema request is made
\* and the list is the string fields of the backend, or the default field
\* set if the request fails; the list is never empty.
C33_ResolvedListAsSpecified == Resolved => ResolvedAsSpecified

\* C33 (part that holds): the resolution of src/src/mcp.mjs:166-185 is as
\* specified.
C33_HoldsForMcpModule == (Resolved /\ rev = "mcp") => ResolvedAsSpecified

\* C33 reached: with a list supplied in TYPESENSE_QUERY_BY, the older
\* resolution has requested the schema and stored its fields instead.
C33_Reached ==
    /\ Resolved /\ rev = "older"
    /\ config.envQueryBy = "title"
    /\ SchemaRequests # {}
    /\ cachedQueryBy = DiscoveredQueryBy

----------------------------------------------------------------------------
(* Properties of the keyword path *)

\* the search just made went the keyword path of a configured backend with
\* printable arguments
KeywordPath ==
    /\ IsMcpSearch
    /\ ~tsClient.null /\ config.collection # ""
    /\ ~Template(last.args.category).threw /\ ~Template(last.args.keywords).threw

\* the field lists of the queries of the search just made, in order
Queried ==
    LET qs == SelectSeq(last.requests, LAMBDA r : r.op = "search")
    IN  [i \in 1..Len(qs) |-> qs[i].queryBy]

\* the attempts the keyword path is specified to make
SpecifiedAttempts == <<cachedQueryBy, "name", DefaultQueryBy>>

\* at most three queries, in the specified order, a later one only after the
\* previous one failed, and none after a success
AttemptsInOrder ==
    /\ Len(Queried) \in 1..3
    /\ \A i \in 1..Len(Queried) :
          /\ Queried[i] = SpecifiedAttempts[i]
          /\ i < Len(Queried) => Queried[i] \in last.backend.rejects
    /\ Len(Queried) < 3 => Queried[Len(Queried)] \notin last.backend.rejects

\* every query of the search just made failed
AllFailed == \A i \in 1..Len(Queried) : Queried[i] \in last.backend.rejects

\* C34: the keyword path queries the backend at most three times, with the
\* resolved list, then a single field, then the default field set, each
\* only if the previous one failed; if all fail the products list is empty.
C34_ThreeAttemptsThenEmpty ==
    KeywordPath => /\ AttemptsInOrder
                   /\ AllFailed => last.products = <<>>

\* C34 (part that holds): the attempts of src/src/mcp.mjs:187-203 are made
\* in the specified order, each only after the previous one failed.
C34_HoldsForOrderOfAttempts ==
    (KeywordPath /\ rev = "mcp") => AttemptsInOrder

\* C34 reached: three attempts in order were all refused and the call
\* returned a product.
C34_Reached ==
    /\ KeywordPath /\ rev = "mcp"
    /\ Len(Queried) = 3 /\ AllFailed
    /\ Len(last.products) = 1

----------------------------------------------------------------------------
(* Properties of the identifier path of src/unnamed/part_006 *)

\* the identifiers the call just made looked up
LookedUp == NormalizeIds(last.decl, last.args.objectID, last.args.objectIDs)

\* the call just made took the identifier path
BatchPath == IsSearch /\ last.args.client /\ Len(LookedUp) > 0

\* the answer of the backend to the batch query on candidate number k
CandidateAnswer(k) == FilterSearch(last.backend, BatchFields[k], LookedUp, Len(LookedUp))

\* the batch query on candidate number k returns at least one hit
Successful(k) == ~CandidateAnswer(k).threw /\ CandidateAnswer(k).hits # <<>>

\* C35: the batch lookup queries the candidate identifier fields in their
\* fixed order and stops at the first candidate with at least one hit: no
\* later candidate is queried, failing and empty candidates are skipped, and
\* the hits used are those of that candidate only.
C35_StopsAtFirstCandidateWithHits ==
    BatchPath
    => LET n == Len(last.batch.tried)
       IN  /\ n \in 1..Len(BatchFields)
           /\ \A i \in 1..n : last.batch.tried[i] = BatchFields[i]
           /\ \A i \in 1..(n - 1) : ~Successful(i)
           /\ IF Successful(n) THEN last.batch.hits = CandidateAnswer(n).hits
              ELSE n = Len(BatchFields) /\ last.batch.hits = <<>>
           /\ \A i \in 1..Len(LookedUp) :
                 HitFor(last.batch.hits, LookedUp[i]) # <<>>
                 => last.products[i] = mapRecord(HitFor(last.batch.hits, LookedUp[i])[1])

\* C35 witness: the lookup stopped at a candidate with hits, and a later
\* candidate, which was not queried, would have had hits too.
C35_Witness ==
    /\ BatchPath
    /\ Len(last.batch.tried) < Len(BatchFields)
    /\ last.batch.hits # <<>>
    /\ \E j \in (Len(last.batch.tried) + 1)..Len(BatchFields) : Successful(j)

\* mapRecord({ objectID: oid }): the identifier and the defaults
Placeholder(oid) ==
    [objectID |-> oid, name |-> "", brand |-> "", item_type |-> "", category |-> "",
     price |-> Num("0"), list_price |-> Num("0"), availability |-> Num("0"),
     image |-> "", spec_sheet |-> "",
     url |-> <<"https://quickitquote.com/catalog/", oid>>]

\* identifier oid of the call just made is matched neither by the batch hits
\* nor by the lookup of any single field
Unmatched(oid) ==
    /\ HitFor(last.batch.hits, oid) = <<>>
    /\ \A k \in 1..Len(FallbackFields) :
          LET r == FilterSearch(last.backend, FallbackFields[k], <<oid>>, 1)
          IN  r.threw \/ r.hits = <<>>

\* the identifiers of the search of src/unnamed/part_005 just made
P5Ids ==
    Dedup(SelectSeq(last.args.objectIDs, NonEmpty)
          \o (IF last.args.objectID # "" THEN <<last.args.objectID>> ELSE <<>>))

\* the search of src/unnamed/part_005 just made took the identifier path
P5IdentifierPath ==
    /\ IsP5Search
    /\ ~tsClient.null /\ config.collection # ""
    /\ P5Ids # <<>>

\* the backend of the search just made resolves none of its identifiers:
\* documents(id).retrieve() and the search for the identifier give nothing
NoneResolved ==
    \A i \in 1..Len(P5Ids) :
       /\ last.backend.retrieveFails \/ RetrieveById(last.backend, P5Ids[i]) = <<>>
       /\ last.backend.searchFails \/ P5Hits(last.backend, P5Ids[i], last.args.category) = <<>>

\* C36: an identifier that no lookup resolves yields, at its position, a
\* placeholder record with that identifier as objectID and defaults in the
\* other fields; its slot is not dropped and holds no other identifier.
C36_UnresolvedYieldsPlaceholder ==
    (P5IdentifierPath /\ NoneResolved)
    => /\ Len(last.products) = Len(P5Ids)
       /\ \A i \in 1..Len(P5Ids) : last.products[i].objectID = P5Ids[i]

\* C36 (part that holds): in src/unnamed/part_006 the record at the position
\* of an unmatched identifier is the placeholder of that identifier.
C36_HoldsForToolCore ==
    BatchPath
    => /\ Len(last.products) = Len(LookedUp)
       /\ \A i \in 1..Len(LookedUp) :
             Unmatched(LookedUp[i]) => last.products[i] = Placeholder(LookedUp[i])

\* C36 reached in src/unnamed/part_006: of two identifiers one is matched by
\* a document and the other gets its placeholder.
C36_ReachedInToolCore ==
    /\ BatchPath /\ Len(LookedUp) = 2
    /\ ~Unmatched(LookedUp[1]) /\ Unmatched(LookedUp[2])
    /\ last.products[2] = Placeholder(LookedUp[2])

\* C36 reached in src/unnamed/part_005: two identifiers that nothing
\* resolves, and an empty products list.
C36_Reached ==
    /\ P5IdentifierPath /\ NoneResolved
    /\ Len(P5Ids) = 2
    /\ last.products = <<>>

\* C37: typesense_search takes the identifier path whenever at least one
\* identifier is supplied, whatever the keywords, and then makes no keyword
\* query; it takes the keyword path only when no identifier is supplied.
C37_IdentifiersTakePrecedence ==
    (IsSearch /\ last.args.client)
    => /\ Supplied(last.args) # <<>> => last.path = "identifier"
       /\ last.path = "keyword" => Supplied(last.args) = <<>>

\* C37 (part that holds): under the declaration of lines 212-218 identifiers
\* take precedence over keywords.
C37_HoldsForSetDeclaration ==
    (IsSearch /\ last.decl = "set") => C37_IdentifiersTakePrecedence

\* C37 reached: under the declaration of line 219 a call with objectID and
\* keywords has made the keyword query.
C37_Reached ==
    /\ IsSearch /\ last.decl = "map"
    /\ last.args.objectID # "" /\ last.args.keywords # ""
    /\ last.path = "keyword"
    /\ last.products = [i \in 1..Len(KeywordSearch(last.backend).hits) |->
                          mapRecord(KeywordSearch(last.backend).hits[i])]
    /\ last.products # <<>>

----------------------------------------------------------------------------
(* Properties of the broadcast set of src/scripts/mcp-http-server.js *)

\* this step is a POST /mcp/sse of the scripts server that reaches the
\* broadcast loop
BroadcastStep ==
    /\ rev = "script"
    /\ last = Idle /\ last'.op = "post" /\ last'.route = "POST /mcp/sse"
    /\ ~BodyParserRejects(last'.req)

\* the streams of the broadcast set whose write fails in this step
FailedNow == {s \in sseClients : streams'[s].state = "broken"}

\* C38: when a write to one open stream fails during a broadcast, that
\* stream is removed from the broadcast set, the broadcast is still written
\* to every other stream of the set, and the caller of the POST gets the
\* answer it gets when no write fails.
C38_FailedWriteIsIsolated ==
    [][BroadcastStep
       => /\ sseClients' = sseClients \ FailedNow
          /\ \A s \in sseClients \ FailedNow :
                streams'[s].events = Append(streams[s].events, MessageEvent(last'.out[1]))
          /\ last'.out = postHttp(rev, tools, REQUIRED_TOKEN, NoCredentials, last'.req).out
          /\ Len(last'.out) = 1 /\ last'.out[1].status = 200]_vars

\* C38 witness: a POST has been answered after the write to one stream
\* failed and the write to another stream of the set succeeded.
C38_Witness ==
    /\ IsPost("POST /mcp/sse") /\ rev = "script"
    /\ last.written # {}
    /\ \A s \in last.written :
          /\ s \in sseClients
          /\ streams[s].events[Len(streams[s].events)] = MessageEvent(last.out[1])
    /\ \E t \in StreamIds \ last.written :
          streams[t].state = "broken" /\ t \notin sseClients
    /\ last.out[1].status = 200

\* the streams that a GET opened and that have neither disconnected nor
\* failed a write
LiveStreams == {s \in StreamIds : streams[s].state = "open"}

\* C39: in every reachable state the broadcast set holds only streams that a
\* GET opened and that have since neither disconnected nor failed a write; a
\* stream outside the set that was opened before receives no later broadcast
\* and is not added back, for any interleaving of opens, disconnects and POSTs
\* (the other servers keep no broadcast set).
C39_BroadcastSetIsLive ==
    /\ [](sseClients \subseteq LiveStreams)
    /\ [][\A s \in StreamIds :
             (rev = "script" /\ streams[s].state # "none" /\ s \notin sseClients)
             => /\ s \notin sseClients'
                /\ streams'[s].events = streams[s].events]_vars

\* C39 witness: one stream has disconnected and left the set, and a later
\* POST was broadcast to the stream that is still in the set only.
C39_Witness ==
    /\ IsPost("POST /mcp/sse") /\ rev = "script"
    /\ \E s, t \in StreamIds :
          /\ s \in sseClients /\ s \in last.written
          /\ streams[t].state = "closed" /\ t \notin sseClients
          /\ Len(streams[s].events) > Len(streams[t].events)

----------------------------------------------------------------------------
(* Properties of the shared state across errors *)

\* the search of this step ends in a degraded result: the promise rejects or
\* the fallback product is returned after the backend refused the queries
DegradedSearchStep ==
    /\ last = Idle /\ last'.op = "mcpsearch"
    /\ ~tsClient.null /\ config.collection # ""
    /\ \/ last'.threw
       \/ /\ Len(last'.products) = 1
          /\ last'.products[1].sku = <<"FALLBACK-001">>

\* C40: the registry, the cached query-field list and the client handle are
\* left unchanged by every request that ends in a degraded search result
\* caused by a backend failure, and the cached list and the handle change
\* only through a successful typesense_config_set.
C40_ErrorsLeaveSharedState ==
    [][/\ DegradedSearchStep
          => tools' = tools /\ cachedQueryBy' = cachedQueryBy /\ tsClient' = tsClient
       /\ (cachedQueryBy' # cachedQueryBy \/ tsClient' # tsClient)
          => last'.op = "config_set" /\ last'.result.applied]_vars

\* C40 (part that holds): no search changes the registry or the client
\* handle, and the handle changes only through a typesense_config_set that
\* answers applied: true.
C40_HoldsForRegistryAndHandle ==
    [][/\ last'.op \in {"mcpsearch", "p5search"} /\ last = Idle
          => tools' = tools /\ tsClient' = tsClient
       /\ tsClient' # tsClient
          => last'.op = "config_set" /\ last'.result.applied]_vars

\* C40 reached: the schema request and every query of a search were refused,
\* the fallback product was returned, and the default field set is cached
\* where no list was cached before.
C40_Reached ==
    /\ IsMcpSearch
    /\ last.cachedBefore = "" /\ cachedQueryBy = DefaultQueryBy
    /\ last.backend.schema = "fail"
    /\ Len(last.products) = 1 /\ last.products[1].sku = <<"FALLBACK-001">>

====
